---------------------------- MODULE Spec2Model ----------------------------
(***************************************************************************)
(* PTD_Gen: the schedule-grid layout builder (modules/schedule_layout.py)  *)
(* and the workbook sheet grafting (generate_ptd.py).                      *)
(*                                                                         *)
(* Python strings are sequences of one-character strings, so that lower(), *)
(* strip(), the substring tests and the regular expressions of             *)
(* make_event_name are computed character by character.                    *)
(***************************************************************************)
EXTENDS Integers, Sequences, FiniteSets, TLC

VARIABLES
    pc,             \* position of the operation under analysis
    group,          \* make_event_name: argument group
    label,          \* make_event_name: argument label
    idx,            \* make_event_name: argument idx
    config,         \* make_event_name / build_schedule_layout: argument config
    result,         \* make_event_name: returned code
    template,       \* replace_sheets_in_template: the sheets of template_xlsx as loaded
    wb_template,    \* replace_sheets_in_template: the sheets of the workbook being edited
    schedule_index, \* replace_sheets_in_template: <<>> for None, <<i>> for index i
    forms_index,    \* replace_sheets_in_template: <<>> for None, <<i>> for index i
    fast,           \* replace_sheets_in_template / main: the fast flag
    out_xlsx,       \* replace_sheets_in_template: the sheets saved to out_xlsx
    inplace,        \* main: args.inplace
    out_given,      \* main: whether --out was given
    temp_dirs,      \* main: the temporary directories that exist
    files,          \* main: the files in them, as <<directory, file>>
    intermediates,  \* run_schedule_grid_pipeline: the list intermediates
    stage,          \* run_schedule_grid_pipeline: number of the stage to run next
    raised,         \* main: the call that raised, "" when none has
    exit_status,    \* main: "running", "returned 0", "returned 2" or "exception"
    output_forms,   \* main: the forms sheet of the output workbook, <<>> before the graft
    src_ws,         \* the copy functions: the source worksheet
    dest_fast,      \* destination worksheet of the fast path
    dest_full,      \* destination worksheet of the full-fidelity path
    max_header_rows,\* _copy_header_styles: argument max_header_rows
    df_visits,      \* build_schedule_layout: the visit table, [columns, rows]
    df_forms,       \* build_schedule_layout: the forms table, [columns, rows]
    event_names,    \* build_schedule_layout: event_names
    rand_idx,       \* build_schedule_layout: rand_idx
    ws,             \* build_schedule_layout: the worksheet, [cells, merged_cells, freeze_panes]
    forms_start_row, \* build_schedule_layout: forms_start_row, 0 before it is set
    cur_row,        \* build_schedule_layout: cur_row of the blocks, 0 before it is set
    row_cursor      \* build_schedule_layout: row_cursor of the forms table, 0 before it is set

eventNameVars == <<group, label, idx, result>>

graftVars == <<template, wb_template, schedule_index, forms_index, out_xlsx>>

runVars == <<inplace, out_given, temp_dirs, files, intermediates, stage, raised, exit_status,
            output_forms>>

copyVars == <<src_ws, dest_fast, dest_full, max_header_rows>>

layoutVars == <<df_visits, df_forms, event_names, rand_idx, ws, forms_start_row,
                cur_row, row_cursor>>

vars == <<pc, config, fast, eventNameVars, graftVars, runVars, copyVars, layoutVars>>

(***************************************************************************)
(* Bounds of the model.                                                    *)
(***************************************************************************)
MaxIdx == 2

(***************************************************************************)
(* Python str as a sequence of characters.                                 *)
(***************************************************************************)
UpperLetters == <<"A","B","C","D","E","F","G","H","I","J","K","L","M",
                  "N","O","P","Q","R","S","T","U","V","W","X","Y","Z">>

LowerLetters == <<"a","b","c","d","e","f","g","h","i","j","k","l","m",
                  "n","o","p","q","r","s","t","u","v","w","x","y","z">>

DigitChars == <<"0","1","2","3","4","5","6","7","8","9">>

Range(f) == {f[i] : i \in DOMAIN f}

IsUpper(c) == c \in Range(UpperLetters)

IsDigit(c) == c \in Range(DigitChars)

IsSpace(c) == c = " "

\* \w of the re module: letters, digits and the underscore
IsWord(c) == c \in Range(UpperLetters) \cup Range(LowerLetters) \cup Range(DigitChars) \cup {"_"}

LowerChar(c) ==
    IF IsUpper(c)
    THEN LowerLetters[CHOOSE i \in DOMAIN UpperLetters : UpperLetters[i] = c]
    ELSE c

\* str.lower()
Lower(s) == [i \in 1..Len(s) |-> LowerChar(s[i])]

\* str.strip(): leading and trailing whitespace removed
Strip(s) ==
    LET nonsp == {i \in 1..Len(s) : ~IsSpace(s[i])}
    IN  IF nonsp = {} THEN <<>>
        ELSE LET lo == CHOOSE i \in nonsp : \A k \in nonsp : i <= k
                 hi == CHOOSE i \in nonsp : \A k \in nonsp : k <= i
             IN  SubSeq(s, lo, hi)

\* sub in s
Contains(sub, s) ==
    \E i \in 1..(Len(s) - Len(sub) + 1) : SubSeq(s, i, i + Len(sub) - 1) = sub

\* s.startswith(prefix)
StartsWith(s, prefix) ==
    /\ Len(prefix) <= Len(s)
    /\ SubSeq(s, 1, Len(prefix)) = prefix

\* str(n) of a natural number
RECURSIVE Decimal(_)
Decimal(n) ==
    IF n < 10 THEN <<DigitChars[n + 1]>>
    ELSE Decimal(n \div 10) \o <<DigitChars[(n % 10) + 1]>>

(***************************************************************************)
(* re.search of the patterns  \b<lit>\s*?(\d+)\b  (spaces = TRUE) and      *)
(* \b<lit>(\d+)\b  (spaces = FALSE), case-sensitive: the calls pass no     *)
(* flag.                                                                   *)
(***************************************************************************)
NoMatch == [found |-> FALSE, g0 |-> <<>>, g1 |-> <<>>]

\* \b at the gap before position i of s (1-based; i = Len(s)+1 is the end)
WordBoundary(s, i) ==
    LET before == (i > 1) /\ IsWord(s[i - 1])
        after  == (i <= Len(s)) /\ IsWord(s[i])
    IN  before # after

\* first position at or after i holding no character of the class
RECURSIVE SkipWhile(_, _, _)
SkipWhile(s, i, digits) ==
    IF i <= Len(s) /\ (IF digits THEN IsDigit(s[i]) ELSE IsSpace(s[i]))
    THEN SkipWhile(s, i + 1, digits)
    ELSE i

\* the match of the pattern starting at position i, if any
MatchAt(lit, spaces, s, i) ==
    LET j == i + Len(lit)                                   \* after the literal
        d == IF spaces THEN SkipWhile(s, j, FALSE) ELSE j       \* after \s*?
        e == SkipWhile(s, d, TRUE)                          \* after \d+
    IN  IF /\ j - 1 <= Len(s)
           /\ SubSeq(s, i, j - 1) = lit
           /\ WordBoundary(s, i)
           /\ e > d
           /\ WordBoundary(s, e)
        THEN [found |-> TRUE, g0 |-> SubSeq(s, i, e - 1), g1 |-> SubSeq(s, d, e - 1)]
        ELSE NoMatch

\* re.search: the leftmost match
Search(lit, spaces, s) ==
    LET hits == {i \in 1..Len(s) : MatchAt(lit, spaces, s, i).found}
    IN  IF hits = {} THEN NoMatch
        ELSE MatchAt(lit, spaces, s, CHOOSE i \in hits : \A k \in hits : i <= k)

\* the three searches with the patterns in the case of the lower-cased label
VisitNumberMatch_lower_case_patterns(s) ==
    LET mV     == Search(<<"v">>, TRUE, s)
        mVisit == Search(<<"v","i","s","i","t">>, TRUE, s)
        mP     == Search(<<"p">>, FALSE, s)
    IN  IF mV.found THEN mV ELSE IF mVisit.found THEN mVisit ELSE mP

\* re.search(V) or re.search(Visit) or re.search(P)
VisitNumberMatch(s) ==
    LET mV     == Search(<<"V">>, TRUE, s)
        mVisit == Search(<<"V","i","s","i","t">>, TRUE, s)
        mP     == Search(<<"P">>, FALSE, s)
    IN  IF mV.found THEN mV ELSE IF mVisit.found THEN mVisit ELSE mP

(***************************************************************************)
(* str.format(number=...) of a template: a sequence of characters and of   *)
(* the replacement field "{number}".                                       *)
(***************************************************************************)
RECURSIVE Format(_, _)
Format(t, number) ==
    IF t = <<>> THEN <<>>
    ELSE (IF Head(t) = "{number}" THEN number ELSE <<Head(t)>>) \o Format(Tail(t), number)

\* what str.format(number=...) cannot fill: a positional field, a field of
\* another name, a single brace
UnfillableFields == {"{}", "{n}", "{"}

\* str.format(number=...) raises (IndexError, KeyError, ValueError)
FormatRaises(t) == \E k \in DOMAIN t : t[k] \in UnfillableFields

\* dict.get(key, default)
Get(d, key, default) == IF key \in DOMAIN d THEN d[key] ELSE default

EmptyDict == [k \in {} |-> <<>>]

(***************************************************************************)
(* make_event_name                                                         *)
(***************************************************************************)
make_event_name(grp, lbl, i, cfg) ==
    LET event_mapping == Get(cfg, "event_name_mapping", EmptyDict)
        g == Lower(Strip(grp))
        s == Lower(Strip(lbl))
        visit_pattern == Get(event_mapping, "visit_pattern", <<"V", "{number}">>)
        phone_pattern == Get(event_mapping, "phone_pattern", <<"P", "{number}">>)
        m == VisitNumberMatch(s)
    IN  IF Contains(<<"s","c","r","e","e","n">>, g)
        THEN Get(event_mapping, "screening", <<"S","C","R","N">>)
        ELSE IF Contains(<<"r","a","n","d","o","m">>, g)
        THEN Get(event_mapping, "random", <<"R","A","N","D">>)
        ELSE IF Contains(<<"r","t","s","m">>, g)
        THEN Get(event_mapping, "rtsm", <<"R","T","S","M">>)
        ELSE IF m.found
        THEN IF Contains(<<"P">>, m.g0)
             THEN Format(phone_pattern, m.g1)
             ELSE Format(visit_pattern, m.g1)
        ELSE <<"V">> \o Decimal(i + 1)

\* the call raises: only str.format can (lines 40-43), on the branch of a match
make_event_name_raises(grp, lbl, i, cfg) ==
    LET event_mapping == Get(cfg, "event_name_mapping", EmptyDict)
        g == Lower(Strip(grp))
        s == Lower(Strip(lbl))
        visit_pattern == Get(event_mapping, "visit_pattern", <<"V", "{number}">>)
        phone_pattern == Get(event_mapping, "phone_pattern", <<"P", "{number}">>)
        m == VisitNumberMatch(s)
    IN  /\ ~Contains(<<"s","c","r","e","e","n">>, g)
        /\ ~Contains(<<"r","a","n","d","o","m">>, g)
        /\ ~Contains(<<"r","t","s","m">>, g)
        /\ m.found
        /\ FormatRaises(IF Contains(<<"P">>, m.g0) THEN phone_pattern ELSE visit_pattern)

(***************************************************************************)
(* Inputs of make_event_name.                                              *)
(***************************************************************************)
Groups == {
    <<"S","c","r","e","e","n","i","n","g">>,
    <<" ","S","C","R","E","E","N"," ">>,
    <<"R","a","n","d","o","m","i","s","a","t","i","o","n">>,
    <<"R","T","S","M"," ","S","e","t","u","p">>,
    <<"S","c","r","e","e","n","i","n","g"," ","a","n","d"," ","R","a","n","d","o","m","i","s","a","t","i","o","n">>,
    <<"R","a","n","d","o","m"," ","R","T","S","M">>,
    <<"T","r","e","a","t","m","e","n","t">>,
    <<"E","n","d"," ","o","f"," ","T","r","e","a","t","m","e","n","t">> }

Labels == {
    <<"V","1">>,
    <<"V","i","s","i","t"," ","2">>,
    <<"V"," ","3">>,
    <<"P","5">>,
    <<"V","1","2">>,
    <<"W","e","e","k"," ","4">>,
    <<"x","V","1">>,
    <<"S","c","r","e","e","n","i","n","g">> }

DefaultConfig == EmptyDict

CustomConfig ==
    [k \in {"event_name_mapping"} |->
        [screening     |-> <<"S","C","R">>,
         random        |-> <<"R","N","D">>,
         rtsm          |-> <<"I","W","R","S">>,
         visit_pattern |-> <<"W", "{number}">>,
         phone_pattern |-> <<"T", "{number}">>]]

Configs == {DefaultConfig, CustomConfig}

\* a configuration whose templates str.format cannot fill
UnfillableConfig ==
    [k \in {"event_name_mapping"} |->
        [visit_pattern |-> <<"V", "{n}">>,
         phone_pattern |-> <<"P", "{}">>]]

(***************************************************************************)
(* The variables of the operations a specification does not run.           *)
(***************************************************************************)
IdleEventName ==
    /\ group = <<>>
    /\ label = <<>>
    /\ idx = 0
    /\ result = <<>>

IdleGraft ==
    /\ template = <<>>
    /\ wb_template = <<>>
    /\ schedule_index = <<>>
    /\ forms_index = <<>>
    /\ out_xlsx = <<>>

IdleRun ==
    /\ inplace = FALSE
    /\ out_given = FALSE
    /\ temp_dirs = {}
    /\ files = {}
    /\ intermediates = <<>>
    /\ stage = 0
    /\ raised = ""
    /\ exit_status = ""
    /\ output_forms = <<>>

IdleCopy ==
    /\ src_ws = <<>>
    /\ dest_fast = <<>>
    /\ dest_full = <<>>
    /\ max_header_rows = 0

IdleLayout ==
    /\ df_visits = <<>>
    /\ df_forms = <<>>
    /\ event_names = <<>>
    /\ rand_idx = 0
    /\ ws = <<>>
    /\ forms_start_row = 0
    /\ cur_row = 0
    /\ row_cursor = 0

(***************************************************************************)
(* Specification of make_event_name: one call on any input.                *)
(***************************************************************************)
InitEventName ==
    /\ pc = "make_event_name"
    /\ group \in Groups
    /\ label \in Labels
    /\ idx \in 0..MaxIdx
    /\ config \in Configs \cup {UnfillableConfig}
    /\ result = <<>>
    /\ fast = FALSE
    /\ IdleGraft
    /\ IdleRun
    /\ IdleCopy
    /\ IdleLayout

CallMakeEventName ==
    /\ pc = "make_event_name"
    /\ IF make_event_name_raises(group, label, idx, config)
       THEN /\ result' = result
            /\ pc' = "raised"
       ELSE /\ result' = make_event_name(group, label, idx, config)
            /\ pc' = "returned"
    /\ UNCHANGED <<group, label, idx, config, fast, graftVars, runVars, copyVars, layoutVars>>

NextEventName == CallMakeEventName

SpecEventName == InitEventName /\ [][NextEventName]_vars

(***************************************************************************)
(* Claims about make_event_name.                                           *)
(***************************************************************************)
ScreeningCode(cfg) == Get(Get(cfg, "event_name_mapping", EmptyDict), "screening", <<"S","C","R","N">>)

RandomCode(cfg) == Get(Get(cfg, "event_name_mapping", EmptyDict), "random", <<"R","A","N","D">>)

RtsmCode(cfg) == Get(Get(cfg, "event_name_mapping", EmptyDict), "rtsm", <<"R","T","S","M">>)

VisitTemplate(cfg) == Get(Get(cfg, "event_name_mapping", EmptyDict), "visit_pattern", <<"V", "{number}">>)

PhoneTemplate(cfg) == Get(Get(cfg, "event_name_mapping", EmptyDict), "phone_pattern", <<"P", "{number}">>)

GroupHas(word, grp) == Contains(word, Lower(Strip(grp)))

NoGroupKeyword(grp) ==
    /\ ~GroupHas(<<"s","c","r","e","e","n">>, grp)
    /\ ~GroupHas(<<"r","a","n","d","o","m">>, grp)
    /\ ~GroupHas(<<"r","t","s","m">>, grp)

\* The visit-number pattern of the label as written (V<digits>, Visit <digits>, P<digits>).
LabelPattern(lbl) == VisitNumberMatch(Strip(lbl))

\* The code the label rules give: the filled template when the label holds a
\* visit-number pattern, the positional fallback otherwise.
LabelRuleCode(lbl, i, cfg) ==
    LET m == LabelPattern(lbl)
    IN  IF m.found
        THEN Format(IF Contains(<<"P">>, m.g0) THEN PhoneTemplate(cfg) ELSE VisitTemplate(cfg), m.g1)
        ELSE <<"V">> \o Decimal(i + 1)

\* C3: when the group holds none of "screen", "random", "rtsm" and the label
\* holds a visit-number pattern, make_event_name returns the visit template
\* (or, iff the matched text holds "P", the phone template) filled with the
\* label's digits; the fallback V{idx+1} is returned only when the label
\* matches no pattern.
C3_LabelPatternDecides ==
    (pc = "returned" /\ NoGroupKeyword(group))
        => result = LabelRuleCode(label, idx, config)

\* C9: the first matching rule in the order screen, random, rtsm, label
\* pattern, fallback decides the code make_event_name returns; in particular a
\* group holding "screen" gives the screening code whatever label and idx are.
C9_FirstMatchingRuleDecides ==
    pc = "returned" =>
        result = IF GroupHas(<<"s","c","r","e","e","n">>, group) THEN ScreeningCode(config)
                 ELSE IF GroupHas(<<"r","a","n","d","o","m">>, group) THEN RandomCode(config)
                 ELSE IF GroupHas(<<"r","t","s","m">>, group) THEN RtsmCode(config)
                 ELSE LabelRuleCode(label, idx, config)

\* C9, the part about the group keywords alone: a group holding "screen" gives
\* the screening code, else one holding "random" the random code, else one
\* holding "rtsm" the rtsm code, whatever the label and idx are.
C9_GroupKeywordPriority ==
    pc = "returned" =>
        /\ GroupHas(<<"s","c","r","e","e","n">>, group) => result = ScreeningCode(config)
        /\ (~GroupHas(<<"s","c","r","e","e","n">>, group) /\ GroupHas(<<"r","a","n","d","o","m">>, group))
              => result = RandomCode(config)
        /\ (~GroupHas(<<"s","c","r","e","e","n">>, group) /\ ~GroupHas(<<"r","a","n","d","o","m">>, group)
              /\ GroupHas(<<"r","t","s","m">>, group))
              => result = RtsmCode(config)

\* C12: make_event_name is total: for every group, label, index and
\* configuration the call returns a code (a non-empty text without an
\* unfilled field) and does not raise.  (That two calls with the same
\* arguments agree is true of every operator and is not part of the formula.)
C12_ReturnsACode ==
    pc \in {"returned", "raised"} =>
        /\ pc = "returned"
        /\ result # <<>>
        /\ \A k \in DOMAIN result : result[k] \notin UnfillableFields \cup {"{number}"}

\* a label that holds a visit number as written, no group keyword, and
\* templates str.format cannot fill: the call returns the positional code
C12_Witness ==
    /\ pc = "returned"
    /\ config = UnfillableConfig
    /\ NoGroupKeyword(group)
    /\ LabelPattern(label).found
    /\ result = <<"V">> \o Decimal(idx + 1)

(***************************************************************************)
(* replace_sheets_in_template.  A workbook is its ordered list of sheets,  *)
(* a sheet a record of its title and its content.                          *)
(***************************************************************************)
MaxSheets == 3

schedule_sheet_name == "Schedule Grid"

forms_sheet_name == "Study Specific Forms"

OtherSheetNames == {"Cover", "Notes", "Visits"}

TemplateContents == {[values |-> "template values 1", styles |-> "template styles"],
                     [values |-> "template values 2", styles |-> "template styles"]}

\* the first worksheet of the generated schedule and forms workbooks
src_schedule == [values |-> "schedule grid values", styles |-> "schedule grid styles"]

src_forms == [values |-> "forms values", styles |-> "forms styles"]

EmptyContent == [values |-> "", styles |-> ""]

\* load_workbook(template_xlsx): a workbook holds at least one sheet, titles are unique
TemplateWorkbooks ==
    LET sheets == [name : {schedule_sheet_name, forms_sheet_name} \cup OtherSheetNames,
                   content : TemplateContents]
    IN  {w \in UNION {[1..n -> sheets] : n \in 1..MaxSheets} :
            \A i, j \in DOMAIN w : w[i].name = w[j].name => i = j}

\* wb.sheetnames
sheetnames(wb) == [i \in DOMAIN wb |-> wb[i].name]

\* list.index(x), 0-based
IndexOf(names, x) == (CHOOSE i \in DOMAIN names : names[i] = x /\ \A k \in 1..(i - 1) : names[k] # x) - 1

\* wb.remove(wb[name])
RemoveSheet(wb, name) ==
    LET i == IndexOf(sheetnames(wb), name) + 1
    IN  SubSeq(wb, 1, i - 1) \o SubSeq(wb, i + 1, Len(wb))

\* an insert that overwrites the element at the index
ListInsert_overwriting(l, index, x) ==
    IF index >= Len(l) THEN Append(l, x) ELSE [l EXCEPT ![index + 1] = x]

\* list.insert(index, x) for index >= 0: past the end it appends
ListInsert(l, index, x) ==
    LET k == IF index > Len(l) THEN Len(l) ELSE index
    IN  SubSeq(l, 1, k) \o <<x>> \o SubSeq(l, k + 1, Len(l))

\* create_sheet with a sheet without index put first instead of last
create_sheet_in_front(wb, title, index) ==
    LET sheet == [name |-> title, content |-> [values |-> "", styles |-> ""]]
    IN  IF index = <<>> THEN <<sheet>> \o wb ELSE ListInsert(wb, index[1], sheet)

\* wb.create_sheet(title, index): index <<>> (None) appends
create_sheet(wb, title, index) ==
    LET sheet == [name |-> title, content |-> EmptyContent]
    IN  IF index = <<>> THEN Append(wb, sheet) ELSE ListInsert(wb, index[1], sheet)

\* the copy of a source sheet into a destination sheet, as a whole: the full path
\* copies values and styles, the fast path values and the header rows' styles
CopiedContent(src, isFast) ==
    [values |-> src.values,
     styles |-> IF isFast THEN "header rows of " \o src.styles ELSE src.styles]

SetContent(wb, name, c) ==
    [i \in DOMAIN wb |-> IF wb[i].name = name THEN [wb[i] EXCEPT !.content = c] ELSE wb[i]]

InitGraft ==
    /\ pc = "graft_loaded"
    /\ template \in TemplateWorkbooks
    /\ wb_template = template
    /\ schedule_index = <<>>
    /\ forms_index = <<>>
    /\ fast \in BOOLEAN
    /\ out_xlsx = <<>>
    /\ config = EmptyDict
    /\ IdleEventName
    /\ IdleRun
    /\ IdleCopy
    /\ IdleLayout

\* lines 331-338: record each target's index and remove it, schedule first
RemoveTargets ==
    /\ pc = "graft_loaded"
    /\ LET hasS == \E i \in DOMAIN wb_template : wb_template[i].name = schedule_sheet_name
           si   == IF hasS THEN <<IndexOf(sheetnames(wb_template), schedule_sheet_name)>> ELSE <<>>
           wb1  == IF hasS THEN RemoveSheet(wb_template, schedule_sheet_name) ELSE wb_template
           hasF == \E i \in DOMAIN wb1 : wb1[i].name = forms_sheet_name
           fi   == IF hasF THEN <<IndexOf(sheetnames(wb1), forms_sheet_name)>> ELSE <<>>
           wb2  == IF hasF THEN RemoveSheet(wb1, forms_sheet_name) ELSE wb1
       IN  /\ schedule_index' = si
           /\ forms_index' = fi
           /\ wb_template' = wb2
    /\ pc' = "graft_removed"
    /\ UNCHANGED <<template, fast, out_xlsx, config, eventNameVars, runVars, copyVars, layoutVars>>

\* lines 340-348: create the destination sheets, schedule first
CreateSheets ==
    /\ pc = "graft_removed"
    /\ wb_template' = create_sheet(create_sheet(wb_template, schedule_sheet_name, schedule_index),
                                   forms_sheet_name, forms_index)
    /\ pc' = "graft_created"
    /\ UNCHANGED <<template, schedule_index, forms_index, fast, out_xlsx, config, eventNameVars, runVars, copyVars, layoutVars>>

\* lines 350-363: copy the source sheets into the destination sheets
CopyContents ==
    /\ pc = "graft_created"
    /\ wb_template' = SetContent(SetContent(wb_template, schedule_sheet_name,
                                            CopiedContent(src_schedule, fast)),
                                 forms_sheet_name, CopiedContent(src_forms, fast))
    /\ pc' = "graft_copied"
    /\ UNCHANGED <<template, schedule_index, forms_index, fast, out_xlsx, config, eventNameVars, runVars, copyVars, layoutVars>>

\* line 365: wb_template.save(out_xlsx)
SaveOutput ==
    /\ pc = "graft_copied"
    /\ out_xlsx' = wb_template
    /\ pc' = "graft_saved"
    /\ UNCHANGED <<template, wb_template, schedule_index, forms_index, fast, config, eventNameVars, runVars, copyVars, layoutVars>>

NextGraft == RemoveTargets \/ CreateSheets \/ CopyContents \/ SaveOutput

SpecGraft == InitGraft /\ [][NextGraft]_vars

(***************************************************************************)
(* Claims about replace_sheets_in_template.                                *)
(***************************************************************************)
TargetNames == {schedule_sheet_name, forms_sheet_name}

\* C1: each target sheet that pre-exists in the template is replaced by a
\* sheet of the same name at the sheet-order index the original had in the
\* template before any removal, also when both targets pre-exist.
C1_TargetKeepsIndex ==
    pc = "graft_saved" =>
        \A i \in DOMAIN template :
            template[i].name \in TargetNames =>
                /\ i \in DOMAIN out_xlsx
                /\ out_xlsx[i].name = template[i].name

\* C2: every template sheet whose name is neither target name is in the output
\* with the same name, the same sheet-order index and the same content.
C2_OtherSheetsUntouched ==
    pc = "graft_saved" =>
        \A i \in DOMAIN template :
            template[i].name \notin TargetNames =>
                /\ i \in DOMAIN out_xlsx
                /\ out_xlsx[i] = template[i]

TemplateNames == {template[i].name : i \in DOMAIN template}

\* C11: a target sheet whose name is absent from the template is appended at
\* the end: in the output it has a larger sheet-order index than every sheet
\* that was in the template, and when "Schedule Grid" is the absent one (the
\* forms sheet being in the template) it is the last sheet of the output.
C11_AbsentTargetAppended ==
    pc = "graft_saved" =>
        /\ \A t \in TargetNames \ TemplateNames :
              \E i \in DOMAIN out_xlsx :
                  /\ out_xlsx[i].name = t
                  /\ \A k \in DOMAIN out_xlsx : out_xlsx[k].name \in TemplateNames => k < i
        /\ (schedule_sheet_name \notin TemplateNames /\ forms_sheet_name \in TemplateNames)
              => out_xlsx[Len(out_xlsx)].name = schedule_sheet_name

\* the schedule sheet absent and the forms sheet the last of a template of
\* three sheets: the forms sheet is re-inserted at the position the appended
\* schedule sheet holds
C11_Witness ==
    /\ pc = "graft_saved"
    /\ Len(template) = 3
    /\ schedule_sheet_name \notin TemplateNames
    /\ template[3].name = forms_sheet_name
    /\ Len(out_xlsx) = 4
    /\ out_xlsx[4].name = schedule_sheet_name

\* both targets absent: the schedule sheet is appended first, the forms sheet
\* after it
C11_BothAbsent ==
    (pc = "graft_saved" /\ TargetNames \cap TemplateNames = {}) =>
        /\ out_xlsx[Len(out_xlsx) - 1].name = schedule_sheet_name
        /\ out_xlsx[Len(out_xlsx)].name = forms_sheet_name

IsOtherName(n) == n \notin TargetNames

\* C20: the output's sheet names are the template's names and the target
\* names, each target name is the name of exactly one output sheet, and the
\* sheets that are no target are in the output in the order they had in the
\* template, wherever the target sheets were.
C20_NamesAndRelativeOrder ==
    pc = "graft_saved" =>
        /\ {out_xlsx[i].name : i \in DOMAIN out_xlsx} = TemplateNames \cup TargetNames
        /\ \A t \in TargetNames : Cardinality({i \in DOMAIN out_xlsx : out_xlsx[i].name = t}) = 1
        /\ SelectSeq(sheetnames(out_xlsx), IsOtherName) = SelectSeq(sheetnames(template), IsOtherName)

\* a template with the forms sheet between two other sheets and no schedule
\* sheet: four sheets in the output
C20_Witness ==
    /\ pc = "graft_saved"
    /\ Len(template) = 3
    /\ template[2].name = forms_sheet_name
    /\ schedule_sheet_name \notin TemplateNames
    /\ Len(out_xlsx) = 4

\* a template with both target sheets, the forms sheet first, around another
\* sheet
C20_BothPresent ==
    ~(/\ pc = "graft_saved"
      /\ Len(template) = 3
      /\ template[1].name = forms_sheet_name
      /\ template[3].name = schedule_sheet_name
      /\ sheetnames(out_xlsx) = sheetnames(template))

(***************************************************************************)
(* auto_format_sheet and finalize_formatting.  The forms sheet of the      *)
(* output workbook is a record of its cells (position -> cell) and its     *)
(* column widths; a cell is a record of its fill, font, alignment and      *)
(* border and of the length of str(value), 0 for a cell without value.     *)
(***************************************************************************)
MaxFormsRow == 4

MaxFormsCol == 5

SetMax(S) == CHOOSE x \in S : \A y \in S : y <= x

\* ws.max_row, ws.max_column: 1 for a sheet without cells
max_row(sheet) == IF DOMAIN sheet.cells = {} THEN 1 ELSE SetMax({p[1] : p \in DOMAIN sheet.cells})

max_column(sheet) == IF DOMAIN sheet.cells = {} THEN 1 ELSE SetMax({p[2] : p \in DOMAIN sheet.cells})

SetMin(S) == CHOOSE x \in S : \A y \in S : x <= y

NoFill == "none"

\* a fill the sheet came with (a group colour of the forms generator)
GroupFill == "solid group colour"

\* line 389: PatternFill(start_color="D9E1F2", end_color="D9E1F2", fill_type="solid")
header_fill == "solid D9E1F2"

FormsCell(f, n) ==
    [fill |-> f, font |-> "default", alignment |-> "default", border |-> "none", value_len |-> n]

\* the cell a worksheet creates when an absent position is iterated over
FormsCellAt(sheet, p) == IF p \in DOMAIN sheet.cells THEN sheet.cells[p] ELSE FormsCell(NoFill, 0)

\* the header loop body with the fill set whatever the cell and its fill
StyleHeaderCell_always_filled(cell, r, c, skip_fill_rows) ==
    [cell EXCEPT !.font = "bold", !.alignment = "center wrap",
                 !.fill = header_fill, !.border = "thin"]

\* lines 400-412: the body of the header loop for the cell at row r, column c
StyleHeaderCell(cell, r, c, skip_fill_rows) ==
    LET beyond_ctdm == r = 1 /\ c > 4
    IN  [cell EXCEPT !.font = "bold", !.alignment = "center wrap",
                     !.fill = IF @ = NoFill /\ r \notin skip_fill_rows /\ ~beyond_ctdm
                              THEN header_fill ELSE @,
                     !.border = "thin"]

\* lines 415-418: the body of the data-row loop
StyleDataCell(cell) == [cell EXCEPT !.alignment = "vertical center wrap", !.border = "thin"]

\* lines 421-432: the width of column c
ColumnWidth(cells, rows, c) ==
    LET max_length == SetMax({0} \cup {cells[<<r, c>>].value_len : r \in rows})
    IN  SetMax({10, SetMin({80, max_length + 3})})

\* lines 382-432; sheet[r], iter_rows and sheet.columns create the cells they
\* pass over, so afterwards every position of the used range holds a cell
auto_format_sheet(sheet, header_rows, skip_fill_rows) ==
    LET hr     == SetMax({1, SetMin({header_rows, max_row(sheet)})})
        rows   == 1..max_row(sheet)
        cols   == 1..max_column(sheet)
        styled == [p \in rows \X cols |->
                     IF p[1] <= hr
                     THEN StyleHeaderCell(FormsCellAt(sheet, p), p[1], p[2], skip_fill_rows)
                     ELSE StyleDataCell(FormsCellAt(sheet, p))]
    IN  [cells |-> styled,
         column_widths |-> [c \in cols |-> ColumnWidth(styled, rows, c)]]

\* lines 435-445, on the forms sheet the saved output always has (the graft
\* re-inserts or appends it); skip_fill_rows={} becomes set()
finalize_formatting(sheet) == auto_format_sheet(sheet, 3, {})

\* a forms sheet of the given number of rows as grafted: no column width yet,
\* some cells with a fill of their own, some positions without a cell
FormsSheet(rows, filled, absent) ==
    [cells |-> [p \in ((1..rows) \X (1..MaxFormsCol)) \ absent |->
                  FormsCell(IF p \in filled THEN GroupFill ELSE NoFill, 4 * p[2])],
     column_widths |-> [c \in {} |-> 0]]

\* the forms sheets of 1..MaxFormsRow rows with at most one filled cell and
\* at most one position of the other cells absent
GraftedFormsSheets ==
    UNION {LET positions == (1..rows) \X (1..MaxFormsCol)
               choices   == {{}} \cup {{p} : p \in positions}
           IN  {FormsSheet(rows, filled, absent \ filled) :
                    filled \in choices, absent \in choices}
           : rows \in 1..MaxFormsRow}

(***************************************************************************)
(* main and the temporary directories of a run.  A call that can raise     *)
(* either returns or raises; shutil.rmtree and os.remove are taken to      *)
(* succeed.                                                                *)
(***************************************************************************)
\* the stages of run_schedule_grid_pipeline with the file each writes
PipelineStages ==
    <<[call |-> "extract_forms",       dir |-> "ptd_intermediate_", file |-> "extracted_forms.csv"],
      [call |-> "parse_soa",           dir |-> "ptd_intermediate_", file |-> "schedule.csv"],
      [call |-> "merge_common_matrix", dir |-> "ptd_intermediate_", file |-> "soa_matrix.csv"],
      [call |-> "group_events",        dir |-> "ptd_intermediate_", file |-> "visits_with_groups.xlsx"],
      [call |-> "build_schedule_grid_file", dir |-> "ptd_schedule_", file |-> "schedule_grid.xlsx"]>>

\* shutil.rmtree(d)
rmtree(dirs, d) == dirs \ {d}

FilesAfterRmtree(fs, d) == {f \in fs : f[1] # d}

\* the exception leaves main: nothing after the raising call runs
Propagate(call) ==
    /\ raised' = call
    /\ exit_status' = "exception"
    /\ pc' = "ended"

InitRun ==
    /\ pc = "main"
    /\ inplace \in BOOLEAN
    /\ out_given \in BOOLEAN
    /\ fast \in BOOLEAN
    /\ temp_dirs = {}
    /\ files = {}
    /\ intermediates = <<>>
    /\ stage = 1
    /\ raised = ""
    /\ exit_status = "running"
    /\ output_forms = <<>>
    /\ config = EmptyDict
    /\ IdleEventName
    /\ IdleGraft
    /\ IdleCopy
    /\ IdleLayout

\* lines 463-477: without --inplace and without --out, main returns 2
ParseArgs ==
    /\ pc = "main"
    /\ IF ~inplace /\ ~out_given
       THEN /\ exit_status' = "returned 2"
            /\ pc' = "ended"
       ELSE /\ exit_status' = exit_status
            /\ pc' = "main_480"
    /\ UNCHANGED <<output_forms, inplace, out_given, temp_dirs, files, intermediates, stage, raised,
                   config, fast, eventNameVars, graftVars, copyVars, layoutVars>>

\* line 480: schedule_tmp_dir = tempfile.mkdtemp(prefix="ptd_schedule_")
MkdtempSchedule ==
    /\ pc = "main_480"
    /\ temp_dirs' = temp_dirs \cup {"ptd_schedule_"}
    /\ pc' = "pipeline_92"
    /\ UNCHANGED <<output_forms, inplace, out_given, files, intermediates, stage, raised, exit_status,
                   config, fast, eventNameVars, graftVars, copyVars, layoutVars>>

\* lines 92-93: temp_dir = tempfile.mkdtemp(prefix="ptd_intermediate_")
MkdtempIntermediate ==
    /\ pc = "pipeline_92"
    /\ temp_dirs' = temp_dirs \cup {"ptd_intermediate_"}
    /\ intermediates' = <<>>
    /\ pc' = "pipeline_try"
    /\ UNCHANGED <<output_forms, inplace, out_given, files, stage, raised, exit_status,
                   config, fast, eventNameVars, graftVars, copyVars, layoutVars>>

\* lines 95-114: the next stage returns, its file written and (but for the last
\* stage) appended to intermediates, or raises, its file written or not
PipelineStage ==
    /\ pc = "pipeline_try"
    /\ LET st == PipelineStages[stage]
       IN  \/ /\ files' = files \cup {<<st.dir, st.file>>}
              /\ intermediates' = IF stage < Len(PipelineStages)
                                  THEN Append(intermediates, <<st.dir, st.file>>)
                                  ELSE intermediates
              /\ stage' = stage + 1
              /\ pc' = IF stage < Len(PipelineStages) THEN "pipeline_try" ELSE "pipeline_finally"
              /\ raised' = raised
           \/ /\ \E partial \in BOOLEAN :
                    files' = IF partial THEN files \cup {<<st.dir, st.file>>} ELSE files
              /\ raised' = st.call
              /\ pc' = "pipeline_finally"
              /\ UNCHANGED <<intermediates, stage>>
    /\ UNCHANGED <<output_forms, inplace, out_given, temp_dirs, exit_status, config, fast, eventNameVars, graftVars, copyVars, layoutVars>>

\* lines 115-126: the finally block, then the return to main or the exception
PipelineFinally ==
    /\ pc = "pipeline_finally"
    /\ files' = FilesAfterRmtree(files \ Range(intermediates), "ptd_intermediate_")
    /\ temp_dirs' = rmtree(temp_dirs, "ptd_intermediate_")
    /\ IF raised # ""
       THEN /\ exit_status' = "exception"
            /\ pc' = "ended"
       ELSE /\ exit_status' = exit_status
            /\ pc' = "forms_135"
    /\ UNCHANGED <<output_forms, inplace, out_given, intermediates, stage, raised, config, fast,
                   eventNameVars, graftVars, copyVars, layoutVars>>

\* lines 135-142: generate_study_specific_forms_xlsx loads Final_study_specific_form.py
LoadFormsModule ==
    /\ pc = "forms_135"
    /\ \/ /\ pc' = "forms_144"
          /\ UNCHANGED <<raised, exit_status>>
       \/ Propagate("exec_module")
    /\ UNCHANGED <<output_forms, inplace, out_given, temp_dirs, files, intermediates, stage, config, fast,
                   eventNameVars, graftVars, copyVars, layoutVars>>

\* lines 144-145: temp_dir = tempfile.mkdtemp(prefix="ptd_forms_")
MkdtempForms ==
    /\ pc = "forms_144"
    /\ temp_dirs' = temp_dirs \cup {"ptd_forms_"}
    /\ pc' = "forms_150"
    /\ UNCHANGED <<output_forms, inplace, out_given, files, intermediates, stage, raised, exit_status,
                   config, fast, eventNameVars, graftVars, copyVars, layoutVars>>

\* lines 150-151: mod.process_clinical_forms writes the forms workbook
ProcessClinicalForms ==
    /\ pc = "forms_150"
    /\ \/ /\ files' = files \cup {<<"ptd_forms_", "study_specific_forms.xlsx">>}
          /\ pc' = "main_493"
          /\ UNCHANGED <<raised, exit_status>>
       \/ /\ Propagate("process_clinical_forms")
          /\ files' = files
    /\ UNCHANGED <<output_forms, inplace, out_given, temp_dirs, intermediates, stage, config, fast,
                   eventNameVars, graftVars, copyVars, layoutVars>>

\* lines 493-499: replace_sheets_in_template
CallReplaceSheets ==
    /\ pc = "main_493"
    /\ \/ /\ pc' = "main_502"
          /\ output_forms' \in GraftedFormsSheets
          /\ UNCHANGED <<raised, exit_status>>
       \/ /\ Propagate("replace_sheets_in_template")
          /\ output_forms' = output_forms
    /\ UNCHANGED <<inplace, out_given, temp_dirs, files, intermediates, stage, config, fast,
                   eventNameVars, graftVars, copyVars, layoutVars>>

\* lines 501-503: finalize_formatting, skipped in fast mode
CallFinalizeFormatting ==
    /\ pc = "main_502"
    /\ IF fast
       THEN /\ pc' = "main_506"
            /\ UNCHANGED <<raised, exit_status, output_forms>>
       ELSE \/ /\ pc' = "main_506"
               /\ output_forms' = finalize_formatting(output_forms)
               /\ UNCHANGED <<raised, exit_status>>
            \/ /\ Propagate("finalize_formatting")
               /\ output_forms' = output_forms
    /\ UNCHANGED <<inplace, out_given, temp_dirs, files, intermediates, stage, config, fast,
                   eventNameVars, graftVars, copyVars, layoutVars>>

\* lines 505-516: remove both temporary directories and return 0
CleanupTempDirs ==
    /\ pc = "main_506"
    /\ temp_dirs' = rmtree(rmtree(temp_dirs, "ptd_schedule_"), "ptd_forms_")
    /\ files' = FilesAfterRmtree(FilesAfterRmtree(files, "ptd_schedule_"), "ptd_forms_")
    /\ exit_status' = "returned 0"
    /\ pc' = "ended"
    /\ UNCHANGED <<output_forms, inplace, out_given, intermediates, stage, raised, config, fast,
                   eventNameVars, graftVars, copyVars, layoutVars>>

NextRun ==
    \/ ParseArgs
    \/ MkdtempSchedule
    \/ MkdtempIntermediate
    \/ PipelineStage
    \/ PipelineFinally
    \/ LoadFormsModule
    \/ MkdtempForms
    \/ ProcessClinicalForms
    \/ CallReplaceSheets
    \/ CallFinalizeFormatting
    \/ CleanupTempDirs

SpecRun == InitRun /\ [][NextRun]_vars

(***************************************************************************)
(* Claims about the temporary directories.                                 *)
(***************************************************************************)
\* C5: every temporary directory created during a run (ptd_intermediate_,
\* ptd_schedule_, ptd_forms_) has been removed by the time the run ends,
\* whichever stage succeeds or raises.
C5_TempDirsRemoved ==
    pc = "ended" => temp_dirs = {}

\* C5, the part that holds: the ptd_intermediate_ directory is removed by the
\* time the run ends, and every directory is when main returns.
C5_IntermediateRemoved ==
    pc = "ended" =>
        /\ "ptd_intermediate_" \notin temp_dirs
        /\ exit_status \in {"returned 0", "returned 2"} => temp_dirs = {}

(***************************************************************************)
(* Claims about the formatting pass.                                       *)
(***************************************************************************)
\* the fills of the header cells after the pass, as C13 states them
HeaderFillsAsClaimed(before, after) ==
    \A p \in DOMAIN after.cells :
        p[1] <= 3 =>
            LET prior == FormsCellAt(before, p).fill
            IN  after.cells[p].fill =
                    IF prior # NoFill THEN prior
                    ELSE IF p[1] = 1 /\ p[2] > 4 THEN NoFill
                    ELSE header_fill

\* C13: the formatting pass keeps the fill of every header cell that had one,
\* gives no row-1 cell beyond column 4 the default header fill and gives it
\* to every other header cell; the grafted forms sheet is changed by that
\* pass only, which runs after the graft and only when fast is off.
C13_HeaderFills ==
    [][/\ (output_forms # <<>> /\ output_forms' # output_forms) =>
              (~fast /\ pc = "main_502" /\ pc' = "main_506")
       /\ (~fast /\ pc = "main_502" /\ pc' = "main_506") =>
              HeaderFillsAsClaimed(output_forms, output_forms')
       /\ (output_forms = <<>> /\ output_forms' # <<>>) => pc = "main_493"]_vars

\* a full-fidelity run has formatted a sheet that came with a filled header
\* cell: that fill is kept, another header cell has the default fill and a
\* row-1 cell beyond column 4 has none
C13_Witness ==
    /\ pc = "main_506"
    /\ ~fast
    /\ \E p \in DOMAIN output_forms.cells : p[1] <= 3 /\ output_forms.cells[p].fill = GroupFill
    /\ \E p \in DOMAIN output_forms.cells : output_forms.cells[p].fill = header_fill
    /\ \E p \in DOMAIN output_forms.cells :
          p[1] = 1 /\ p[2] > 4 /\ output_forms.cells[p].fill = NoFill
    /\ \E p \in DOMAIN output_forms.cells : output_forms.cells[p].font = "bold"

(***************************************************************************)
(* Worksheets, cell by cell.  A worksheet is a record of its cells (a      *)
(* function from the positions <<row, column>> that hold a cell), its      *)
(* merge ranges <<min_row, min_col, max_row, max_col>> and its append      *)
(* cursor _current_row.  A cell is a record of its value, whether it       *)
(* carries a style and whether it is a MergedCell.                         *)
(***************************************************************************)
MaxRow == 2

MaxCol == 2

MaxMerges == 1

None == "None"

CellValues == {"x"}

NewCell(v) == [value |-> v, styled |-> FALSE, merged |-> FALSE]

MergedCell == [value |-> None, styled |-> FALSE, merged |-> TRUE]

\* wb.create_sheet(): a worksheet without cells
NewWorksheet == [cells |-> [p \in {} |-> NewCell(None)], merged_cells |-> {}, current_row |-> 0]

\* the value read at a position: None where the sheet holds no cell
ValueAt(sheet, r, c) == IF <<r, c>> \in DOMAIN sheet.cells THEN sheet.cells[<<r, c>>].value ELSE None

PutCell(sheet, pos, cell) ==
    [sheet EXCEPT !.cells = [p \in DOMAIN sheet.cells \cup {pos} |->
                              IF p = pos THEN cell ELSE sheet.cells[p]]]

\* ws.cell(row, column, value): the cell is created when absent,
\* its value is set when value is not None
ws_cell(sheet, r, c, v) ==
    LET old == IF <<r, c>> \in DOMAIN sheet.cells THEN sheet.cells[<<r, c>>] ELSE NewCell(None)
    IN  PutCell(sheet, <<r, c>>, IF v # None THEN [old EXCEPT !.value = v] ELSE old)

\* the positions of a range, and its top-left cell
RangeCells(rng) == {<<r, c>> : r \in rng[1]..rng[3], c \in rng[2]..rng[4]}

Anchor(rng) == <<rng[1], rng[2]>>

\* ws.merge_cells(range): the range is recorded, its top-left cell created when
\* absent, every other cell of it replaced by a MergedCell
merge_cells(sheet, rng) ==
    LET withAnchor == ws_cell(sheet, rng[1], rng[2], None)
        cells2 == [p \in DOMAIN withAnchor.cells \cup RangeCells(rng) |->
                      IF p \in RangeCells(rng) \ {Anchor(rng)} THEN MergedCell
                      ELSE withAnchor.cells[p]]
    IN  [withAnchor EXCEPT !.cells = cells2, !.merged_cells = @ \cup {rng}]

RECURSIVE MergeAll(_, _)
MergeAll(sheet, rngs) ==
    IF rngs = {} THEN sheet
    ELSE LET rng == CHOOSE x \in rngs : TRUE
         IN  MergeAll(merge_cells(sheet, rng), rngs \ {rng})

\* iter_rows_values changed to start at the first row that holds a cell
\* (sheet.min_row) instead of row 1
iter_rows_values_from_min_row(sheet) ==
    IF sheet.current_row = 0 THEN <<>>
    ELSE LET first == CHOOSE r \in 1..max_row(sheet) :
                          /\ \E p \in DOMAIN sheet.cells : p[1] = r
                          /\ \A p \in DOMAIN sheet.cells : p[1] >= r
         IN  [k \in 1..(max_row(sheet) - first + 1) |->
                 [c \in 1..max_column(sheet) |-> ValueAt(sheet, first + k - 1, c)]]

\* ws.iter_rows(values_only=True): nothing for a sheet whose cursor is 0, else
\* the rows 1..max_row over the columns 1..max_column
iter_rows_values(sheet) ==
    IF sheet.current_row = 0 THEN <<>>
    ELSE [r \in 1..max_row(sheet) |-> [c \in 1..max_column(sheet) |-> ValueAt(sheet, r, c)]]

\* ws.append(list): a cell for every element, in the row after the cursor
append(sheet, row) ==
    LET row_idx == sheet.current_row + 1
        new == {<<row_idx, c>> : c \in 1..Len(row)}
    IN  [sheet EXCEPT !.cells = [p \in DOMAIN sheet.cells \cup new |->
                                 IF p \in new THEN NewCell(row[p[2]]) ELSE sheet.cells[p]],
                   !.current_row = row_idx]

RECURSIVE AppendAll(_, _)
AppendAll(sheet, rows) ==
    IF rows = <<>> THEN sheet ELSE AppendAll(append(sheet, Head(rows)), Tail(rows))

\* _copy_worksheet_values_only: the rows appended, then the merges recreated
copy_worksheet_values_only(src, dest) ==
    MergeAll(AppendAll(dest, iter_rows_values(src)), src.merged_cells)

\* the cells ws.iter_rows() and ws[r] visit; a position without a cell reads
\* as a fresh cell
IterPositions(sheet, rows) ==
    IF sheet.current_row = 0 /\ rows = {} THEN {}
    ELSE {<<r, c>> : r \in (IF rows = {} THEN 1..max_row(sheet) ELSE rows), c \in 1..max_column(sheet)}

CellAt(sheet, pos) == IF pos \in DOMAIN sheet.cells THEN sheet.cells[pos] ELSE NewCell(None)

\* one cell's style copied: the destination cell is created when absent
CopyStyle(src, dest, pos) ==
    LET d  == ws_cell(dest, pos[1], pos[2], None)
    IN  IF CellAt(src, pos).styled
        THEN PutCell(d, pos, [d.cells[pos] EXCEPT !.styled = TRUE])
        ELSE d

RECURSIVE CopyStyles(_, _, _)
CopyStyles(src, dest, todo) ==
    IF todo = {} THEN dest
    ELSE LET pos == CHOOSE x \in todo : TRUE
         IN  CopyStyles(src, CopyStyle(src, dest, pos), todo \ {pos})

\* _copy_header_styles: the styles of the first max_header_rows rows
copy_header_styles(src, dest, k) ==
    IF k <= 0 THEN dest
    ELSE LET rows_to_copy == IF k < max_row(src) THEN k ELSE max_row(src)
         IN  CopyStyles(src, dest, IterPositions(src, 1..rows_to_copy))

\* one cell of _copy_worksheet_contents: a MergedCell is skipped
CopyCell(src, dest, pos) ==
    IF CellAt(src, pos).merged THEN dest
    ELSE CopyStyle(src, ws_cell(dest, pos[1], pos[2], CellAt(src, pos).value), pos)

RECURSIVE CopyCells(_, _, _)
CopyCells(src, dest, todo) ==
    IF todo = {} THEN dest
    ELSE LET pos == CHOOSE x \in todo : TRUE
         IN  CopyCells(src, CopyCell(src, dest, pos), todo \ {pos})

\* _copy_worksheet_contents: the merges first, then every cell that is no MergedCell
copy_worksheet_contents(src, dest) ==
    CopyCells(src, MergeAll(dest, src.merged_cells), IterPositions(src, {}))

(***************************************************************************)
(* The source worksheets: what load_workbook gives for a sheet whose file  *)
(* holds a cell at some positions and some disjoint merge ranges.          *)
(***************************************************************************)
Positions == {<<r, c>> : r \in 1..MaxRow, c \in 1..MaxCol}

MergeRanges ==
    {rng \in (1..MaxRow) \X (1..MaxCol) \X (1..MaxRow) \X (1..MaxCol) :
        rng[1] <= rng[3] /\ rng[2] <= rng[4] /\ (rng[1] < rng[3] \/ rng[2] < rng[4])}

\* the sets of at most n pairwise disjoint merge ranges
RECURSIVE DisjointRangeSets(_)
DisjointRangeSets(n) ==
    IF n = 0 THEN {{}}
    ELSE LET smaller == DisjointRangeSets(n - 1)
         IN  smaller \cup
             UNION {{ms \cup {rng} : rng \in {x \in MergeRanges :
                                        \A a \in ms : RangeCells(a) \cap RangeCells(x) = {}}} :
                    ms \in smaller}

MergeSets == DisjointRangeSets(MaxMerges)

\* the reader binds the file's cells, sets the cursor to max_row, then merges
LoadedSheet(filled, ms) ==
    LET bound == [cells |-> [p \in DOMAIN filled |-> [value |-> filled[p], styled |-> TRUE, merged |-> FALSE]],
                  merged_cells |-> {}, current_row |-> 0]
        cur   == IF DOMAIN filled = {} THEN bound ELSE [bound EXCEPT !.current_row = max_row(bound)]
    IN  MergeAll(cur, ms)

SourceSheets ==
    {LoadedSheet(filled, ms) :
        filled \in UNION {[ps -> CellValues] : ps \in SUBSET Positions}, ms \in MergeSets}

(***************************************************************************)
(* Specification of the two copy paths of replace_sheets_in_template on    *)
(* one source sheet, each into a fresh destination sheet.                  *)
(***************************************************************************)
InitCopy ==
    /\ pc = "copy_fast_values"
    /\ src_ws \in SourceSheets
    /\ dest_fast = NewWorksheet
    /\ dest_full = NewWorksheet
    /\ max_header_rows \in {3, 5}
    /\ config = EmptyDict
    /\ fast = FALSE
    /\ IdleEventName
    /\ IdleGraft
    /\ IdleRun
    /\ IdleLayout

\* lines 356-357
CopyValuesOnly ==
    /\ pc = "copy_fast_values"
    /\ dest_fast' = copy_worksheet_values_only(src_ws, dest_fast)
    /\ pc' = "copy_fast_styles"
    /\ UNCHANGED <<src_ws, dest_full, max_header_rows, config, fast, eventNameVars, graftVars, runVars, layoutVars>>

\* lines 359-360
CopyHeaderStyles ==
    /\ pc = "copy_fast_styles"
    /\ dest_fast' = copy_header_styles(src_ws, dest_fast, max_header_rows)
    /\ pc' = "copy_full"
    /\ UNCHANGED <<src_ws, dest_full, max_header_rows, config, fast, eventNameVars, graftVars, runVars, layoutVars>>

\* lines 362-363
CopyWorksheetContents ==
    /\ pc = "copy_full"
    /\ dest_full' = copy_worksheet_contents(src_ws, dest_full)
    /\ pc' = "copy_done"
    /\ UNCHANGED <<src_ws, dest_fast, max_header_rows, config, fast, eventNameVars, graftVars, runVars, layoutVars>>

NextCopy == CopyValuesOnly \/ CopyHeaderStyles \/ CopyWorksheetContents

SpecCopy == InitCopy /\ [][NextCopy]_vars

(***************************************************************************)
(* Claims about the copy paths.                                            *)
(***************************************************************************)
\* every position the source or either destination can hold a cell at
AllPositions == DOMAIN src_ws.cells \cup DOMAIN dest_fast.cells \cup DOMAIN dest_full.cells

\* C7: for every source sheet, the fast path (_copy_worksheet_values_only, then
\* _copy_header_styles) and the full-fidelity path (_copy_worksheet_contents)
\* give the same value at every (row, column) of the destination.
C7_SameValues ==
    pc = "copy_done" =>
        \A p \in AllPositions : ValueAt(dest_fast, p[1], p[2]) = ValueAt(dest_full, p[1], p[2])

\* C7 witness: both paths have run on a sheet with a merge range, an empty
\* first row and a value below it, and the value arrived in both destinations.
C7_Witness ==
    /\ pc = "copy_done"
    /\ src_ws.merged_cells # {}
    /\ \A p \in DOMAIN src_ws.cells : p[1] = 1 => src_ws.cells[p].value = None
    /\ \E p \in DOMAIN src_ws.cells :
          /\ p[1] > 1
          /\ src_ws.cells[p].value # None
          /\ ValueAt(dest_fast, p[1], p[2]) = src_ws.cells[p].value
          /\ ValueAt(dest_full, p[1], p[2]) = src_ws.cells[p].value

(***************************************************************************)
(* build_schedule_layout.  Cell and table values are tagged: a str, the    *)
(* float NaN, a float (n holds twice the number, so that halves are        *)
(* exact), an int, or None.                                                *)
(***************************************************************************)
MaxVisits == 3

PyStr(chars) == [t |-> "str", s |-> chars, n |-> 0]

NaN == [t |-> "nan", s |-> <<>>, n |-> 0]

PyFloat(twice) == [t |-> "float", s |-> <<>>, n |-> twice]

PyInt(k) == [t |-> "int", s |-> <<>>, n |-> k]

PyNone == [t |-> "none", s |-> <<>>, n |-> 0]

EmptyStr == PyStr(<<>>)

\* pd.isna(v)
pd_isna(v) == v.t \in {"nan", "none"}

Abs(x) == IF x < 0 THEN -x ELSE x

\* int(v) of the float twice/2: truncation toward zero
IntOfFloat(twice) == IF twice >= 0 THEN twice \div 2 ELSE -((-twice) \div 2)

\* math.isclose(v, int(v)) of the float twice/2, rel_tol = 1e-09, abs_tol = 0
IsCloseToInt(twice) ==
    LET k == IntOfFloat(twice)
        big == IF Abs(twice) > 2 * Abs(k) THEN Abs(twice) ELSE 2 * Abs(k)
    IN  Abs(twice - 2 * k) * 1000000000 <= big

\* lines 281-284 and 322-325: NaN becomes "", an integral float an int
Normalise(v) ==
    LET v1 == IF pd_isna(v) THEN EmptyStr ELSE v
    IN  IF v1.t = "float" /\ IsCloseToInt(v1.n) THEN PyInt(IntOfFloat(v1.n)) ELSE v1

\* bool(v): NaN is true, "", 0 and 0.0 are false
Truthy(v) ==
    CASE v.t = "str" -> v.s # <<>>
      [] v.t = "nan" -> TRUE
      [] v.t = "float" -> v.n # 0
      [] v.t = "int" -> v.n # 0
      [] OTHER -> FALSE

\* a or b
Or(a, b) == IF Truthy(a) THEN a ELSE b

\* Series.get(key, default)
SeriesGet(r, key, default) == IF key \in DOMAIN r THEN r[key] ELSE default

(***************************************************************************)
(* The worksheet of the layout: its cells (position -> value, PyNone for a *)
(* cell without value), its merge ranges and its freeze pane.              *)
(***************************************************************************)
NewLayoutSheet == [cells |-> [p \in {} |-> PyNone], merged_cells |-> {}, freeze_panes |-> <<>>]

\* ws.cell(row, column, value): created when absent, set when value is not None
SetCell(w, r, c, v) ==
    IF <<r, c>> \in DOMAIN w.cells
    THEN (IF v = PyNone THEN w ELSE [w EXCEPT !.cells[<<r, c>>] = v])
    ELSE [w EXCEPT !.cells = (<<r, c>> :> v) @@ @]

\* ws.merge_cells(start_row, start_column, end_row, end_column)
MergeCells(w, rng) ==
    LET a == SetCell(w, rng[1], rng[2], PyNone)
    IN  [a EXCEPT !.cells = [p \in DOMAIN a.cells \cup RangeCells(rng) |->
                                IF p \in RangeCells(rng) \ {Anchor(rng)} THEN PyNone
                                ELSE a.cells[p]],
                  !.merged_cells = @ \cup {rng}]

\* the value a position shows: PyNone where there is no cell
Shown(w, r, c) == IF <<r, c>> \in DOMAIN w.cells THEN w.cells[<<r, c>>] ELSE PyNone

(***************************************************************************)
(* Configuration and the columns.                                          *)
(***************************************************************************)
DefaultLeftColumns == <<<<"F","o","r","m"," ","L","a","b","e","l">>, <<"F","o","r","m"," ","N","a","m","e">>, <<"S","o","u","r","c","e">>>>

DefaultExtraHeaders ==
    <<<<"C","o","m","m","o","n"," ","F","o","r","m","s">>, <<"N","/","A">>, <<"I","s"," ","F","o","r","m"," ","D","y","n","a","m","i","c","?">>, <<"F","o","r","m"," ","D","y","n","a","m","i","c"," ","C","r","i","t","e","r","i","a">>,
      <<"A","d","d","i","t","i","o","n","a","l"," ","P","r","o","g","r","a","m","m","i","n","g"," ","I","n","s","t","r","u","c","t","i","o","n","s">>>>

left_columns == Get(config, "left_columns", DefaultLeftColumns)

extra_headers == Get(config, "extra_headers", DefaultExtraHeaders)

col_after_source == Len(left_columns) + 1

col_rtsm == col_after_source + 1

col_start_visits == col_rtsm + 1

\* lines 69-71
visit_groups == [i \in 1..Len(df_visits.rows) |-> df_visits.rows[i][<<"E","v","e","n","t"," ","G","r","o","u","p">>].s]

visit_labels == [i \in 1..Len(df_visits.rows) |-> df_visits.rows[i][<<"V","i","s","i","t"," ","N","a","m","e">>].s]

n_visits == Len(visit_labels)

\* the loop of lines 79-82 without its break: the last match stays in rand_idx
RECURSIVE FirstRandom_without_break(_, _)
FirstRandom_without_break(groups, i) ==
    IF i > Len(groups) THEN <<>>
    ELSE LET later == FirstRandom_without_break(groups, i + 1)
         IN  IF later # <<>> THEN later
             ELSE IF Contains(<<"r","a","n","d","o","m">>, Lower(groups[i])) THEN <<i - 1>>
             ELSE <<>>

\* lines 77-84: the loop with its break, then the default
RECURSIVE FirstRandom(_, _)
FirstRandom(groups, i) ==
    IF i > Len(groups) THEN <<>>
    ELSE IF Contains(<<"r","a","n","d","o","m">>, Lower(groups[i])) THEN <<i - 1>>
    ELSE FirstRandom(groups, i + 1)

LocateRandIdx(groups) ==
    LET found == FirstRandom(groups, 1)
    IN  IF found = <<>> THEN 0 ELSE found[1]

(***************************************************************************)
(* The header, rows 1-3 (lines 107-203).                                   *)
(***************************************************************************)
\* a sequence of ws.cell(row, column, value) calls <<row, column, value>>, in order
RECURSIVE WriteAll(_, _)
WriteAll(w, writes) ==
    IF writes = <<>> THEN w
    ELSE WriteAll(SetCell(w, Head(writes)[1], Head(writes)[2], Head(writes)[3]), Tail(writes))

RECURSIVE Concat(_)
Concat(seqs) == IF seqs = <<>> THEN <<>> ELSE Head(seqs) \o Concat(Tail(seqs))

\* lines 109-115: the left columns, the label in row 2 only
LeftColumnWrites ==
    Concat([i \in 1..Len(left_columns) |->
               [row \in 1..3 |-> <<row, i, IF row = 2 THEN PyStr(left_columns[i]) ELSE PyNone>>]])

\* lines 118-141: the event column and the RTSM column
EventAndRtsmWrites ==
    <<<<1, col_after_source, PyStr(<<"E","v","e","n","t"," ","G","r","o","u","p",":">>)>>,
      <<2, col_after_source, PyStr(<<"E","v","e","n","t"," ","L","a","b","e","l",":">>)>>,
      <<3, col_after_source, PyStr(<<"E","v","e","n","t"," ","N","a","m","e",":">>)>>,
      <<1, col_rtsm, PyStr(<<"R","T","S","M">>)>>,
      <<2, col_rtsm, PyStr(<<"R","T","S","M">>)>>,
      <<3, col_rtsm, PyStr(<<"R","T","S","M">>)>>>>

\* lines 149-156: event_label after the if/elif chain; prev is the variable's
\* value before it, <<>> while it is unbound
EventLabelAfter(ename, prev) ==
    IF ename = <<"S","C","R","N">> THEN <<<<"S","c","r","e","e","n","i","n","g">>>>
    ELSE IF ename = <<"R","A","N","D">> THEN <<<<"R","a","n","d","o","m","i","s","a","t","i","o","n">>>>
    ELSE IF Contains(<<"V">>, ename) THEN <<<<"V","i","s","i","t"," ">> \o Tail(ename)>>
    ELSE IF Contains(<<"P">>, ename) THEN <<<<"P","h","o","n","e"," ","V","i","s","i","t"," ">> \o Tail(ename)>>
    ELSE prev

\* lines 147-160: row 2; reading the unbound event_label raises
RECURSIVE Row2Loop(_, _, _, _)
Row2Loop(w, names, j, prev) ==
    IF j > Len(names) THEN [w |-> w, raised |-> FALSE]
    ELSE LET event_label == EventLabelAfter(names[j], prev)
         IN  IF event_label = <<>> THEN [w |-> w, raised |-> TRUE]
             ELSE Row2Loop(SetCell(w, 2, col_start_visits + j - 1, PyStr(event_label[1])),
                           names, j + 1, event_label)

\* lines 163-168: row 3
Row3Writes(names) == [j \in 1..Len(names) |-> <<3, col_start_visits + j - 1, PyStr(names[j])>>]

\* one merged band of row 1 (lines 177-182 and 185-190)
MergeBand(w, first_col, last_col, value) ==
    SetCell(MergeCells(w, <<1, first_col, 1, last_col>>), 1, first_col, PyStr(value))

\* lines 171-183: the loop over the visits; cur is <<>> for None, else
\* <<cur_group, group_start_col>>
RECURSIVE Row1Loop(_, _, _, _)
Row1Loop(w, groups, j, cur) ==
    IF j > Len(groups) THEN [w |-> w, cur |-> cur]
    ELSE LET g    == groups[j]
             c    == col_start_visits + j - 1
             cur1 == IF cur = <<>> THEN <<g, c>> ELSE cur
         IN  IF g # cur1[1]
             THEN Row1Loop(MergeBand(w, cur1[2], c - 1, cur1[1]), groups, j + 1, <<g, c>>)
             ELSE Row1Loop(w, groups, j + 1, cur1)

\* row 1 without lines 184-190: the last band is left open
Row1_without_last_band(w, groups) == Row1Loop(w, groups, 1, <<>>).w

\* lines 170-190: row 1, the last band closed after the loop
Row1(w, groups) ==
    LET after == Row1Loop(w, groups, 1, <<>>)
    IN  IF after.cur # <<>>
        THEN MergeBand(after.w, after.cur[2], col_start_visits + Len(groups) - 1, after.cur[1])
        ELSE after.w

\* lines 193-203: the extra headers
ExtraHeaderWrites(n) ==
    Concat([k \in 1..Len(extra_headers) |->
               <<<<1, col_start_visits + n + k - 1, EmptyStr>>,
                 <<2, col_start_visits + n + k - 1, PyStr(extra_headers[k])>>,
                 <<3, col_start_visits + n + k - 1, EmptyStr>>>>])

(***************************************************************************)
(* The two blocks of attribute rows (lines 205-290).                       *)
(***************************************************************************)
\* dynamic_rows without its third attribute
dynamic_rows_without_triggering_form ==
    <<<<"V","i","s","i","t"," ","D","y","n","a","m","i","c","s"," ","(","I","f"," ","Y",","," ","t","h","e","n"," ","E","v","e","n","t"," ","s","h","o","u","l","d"," ","a","p","p","e","a","r"," ","b","a","s","e","d"," ","o","n"," ","t","r","i","g","g","e","r","i","n","g"," ","c","r","i","t","e","r","i","a",")">>,
      <<"T","r","i","g","g","e","r","i","n","g",":"," ","E","v","e","n","t">>,
      <<"T","r","i","g","g","e","r","i","n","g",":"," ","I","t","e","m"," ","="," ","R","e","s","p","o","n","s","e"," ","(","i","f"," ","s","p","e","c","i","f","i","c"," ","r","e","s","p","o","n","s","e"," ","e","x","p","e","c","t","e","d",","," ","e","l","s","e"," ","l","e","a","v","e"," ","t","o"," ","a","c","c","e","p","t"," ","a","n","y"," ","e","n","t","e","r","e","d"," ","r","e","s","u","l","t",")">>>>

dynamic_rows ==
    <<<<"V","i","s","i","t"," ","D","y","n","a","m","i","c","s"," ","(","I","f"," ","Y",","," ","t","h","e","n"," ","E","v","e","n","t"," ","s","h","o","u","l","d"," ","a","p","p","e","a","r"," ","b","a","s","e","d"," ","o","n"," ","t","r","i","g","g","e","r","i","n","g"," ","c","r","i","t","e","r","i","a",")">>,
      <<"T","r","i","g","g","e","r","i","n","g",":"," ","E","v","e","n","t">>,
      <<"T","r","i","g","g","e","r","i","n","g",":"," ","F","o","r","m">>,
      <<"T","r","i","g","g","e","r","i","n","g",":"," ","I","t","e","m"," ","="," ","R","e","s","p","o","n","s","e"," ","(","i","f"," ","s","p","e","c","i","f","i","c"," ","r","e","s","p","o","n","s","e"," ","e","x","p","e","c","t","e","d",","," ","e","l","s","e"," ","l","e","a","v","e"," ","t","o"," ","a","c","c","e","p","t"," ","a","n","y"," ","e","n","t","e","r","e","d"," ","r","e","s","u","l","t",")">>>>

event_window_rows ==
    <<<<"A","s","s","i","g","n"," ","V","i","s","i","t"," ","W","i","n","d","o","w">>,
      <<"O","f","f","s","e","t"," ","T","y","p","e"," ","(","P","r","e","v","i","o","u","s"," ","E","v","e","n","t",","," ","S","p","e","c","i","f","i","c"," ","E","v","e","n","t",","," ","o","r"," ","N","o","n","e",")">>,
      <<"O","f","f","s","e","t"," ","D","a","y","s"," ","(","P","l","a","n","n","e","d"," ","V","i","s","i","t"," ","D","a","t","e",","," ","a","s"," ","c","a","l","c","u","l","a","t","e","d"," ","f","r","o","m"," ","O","f","f","s","e","t"," ","E","v","e","n","t",")">>,
      <<"D","a","y"," ","R","a","n","g","e"," ","-"," ","E","a","r","l","y">>,
      <<"D","a","y"," ","R","a","n","g","e"," ","-"," ","L","a","t","e">>>>

sections ==
    <<[title |-> <<"V","i","s","i","t"," ","D","y","n","a","m","i","c"," ","P","r","o","p","e","r","t","i","e","s">>, attrs |-> dynamic_rows],
      [title |-> <<"E","v","e","n","t"," ","W","i","n","d","o","w"," ","C","o","n","f","i","g","u","r","a","t","i","o","n">>, attrs |-> event_window_rows]>>

\* a column of df_visits read for visit j (0-based), when the attribute starts
\* with the column's name and the table has the column
FromVisitColumn(attr, col, j) ==
    StartsWith(attr, col) /\ col \in df_visits.columns

\* the condition of line 246 without the randomisation index
VisitDynamicsApplies_at_every_index(j, eg, ridx) ==
    ~Contains(<<"e","n","d"," ","o","f"," ","t","r","e","a","t","m","e","n","t">>, eg) /\ ~Contains(<<"e","n","d"," ","o","f"," ","s","t","u","d","y">>, eg)

\* line 246: visit j (0-based) of lower-cased group eg is dynamic
VisitDynamicsApplies(j, eg, ridx) ==
    j >= ridx /\ ~Contains(<<"e","n","d"," ","o","f"," ","t","r","e","a","t","m","e","n","t">>, eg) /\ ~Contains(<<"e","n","d"," ","o","f"," ","s","t","u","d","y">>, eg)

\* lines 242-279: mapped_value of attribute attr for visit j (0-based), and
\* whether the break of line 265 leaves the loop over the visits
MappedValue(attr, j, groups, labels, names, ridx) ==
    LET eg == Lower(groups[j + 1])
        no == [v |-> EmptyStr, brk |-> FALSE]
    IN  IF StartsWith(attr, <<"V","i","s","i","t"," ","D","y","n","a","m","i","c","s">>)
        THEN IF VisitDynamicsApplies(j, eg, ridx)
             THEN [v |-> PyStr(<<"Y">>), brk |-> FALSE] ELSE no
        ELSE IF StartsWith(attr, <<"T","r","i","g","g","e","r","i","n","g",":"," ","E","v","e","n","t">>)
        THEN IF names[j + 1] = <<"R","A","N","D">> THEN [v |-> PyStr(<<"S","C","R","N">>), brk |-> FALSE]
             ELSE IF StartsWith(names[j + 1], <<"V">>) /\ j > 0
             THEN [v |-> PyStr(names[j]), brk |-> FALSE]
             ELSE IF Lower(names[j + 1]) = <<"f","o","l","l","o","w","-","u","p">>
             THEN [v |-> PyStr(<<"E","O","T">>), brk |-> FALSE]
             ELSE no
        ELSE IF StartsWith(attr, <<"T","r","i","g","g","e","r","i","n","g",":"," ","F","o","r","m">>)
        THEN IF names[j + 1] = <<"R","A","N","D">> THEN [v |-> PyStr(<<"E","L","I","G","I","B","I","L","I","T","Y","_","C","R","I","T","E","R","I","A">>), brk |-> FALSE]
             ELSE IF j > ridx
             THEN IF Contains(<<"V">>, labels[j + 1])
                  THEN [v |-> PyStr(<<"R","A","N","D","O","M","I","S","A","T","I","O","N">>), brk |-> TRUE]
                  ELSE no
             ELSE no
        ELSE IF StartsWith(attr, <<"A","s","s","i","g","n"," ","V","i","s","i","t"," ","W","i","n","d","o","w">>)
        THEN [v |-> PyStr(<<"Y">>), brk |-> FALSE]
        ELSE IF FromVisitColumn(attr, <<"O","f","f","s","e","t"," ","T","y","p","e">>, j)
        THEN [v |-> SeriesGet(df_visits.rows[j + 1], <<"O","f","f","s","e","t"," ","T","y","p","e">>, EmptyStr), brk |-> FALSE]
        ELSE IF FromVisitColumn(attr, <<"O","f","f","s","e","t"," ","D","a","y","s">>, j)
        THEN [v |-> SeriesGet(df_visits.rows[j + 1], <<"O","f","f","s","e","t"," ","D","a","y","s">>, EmptyStr), brk |-> FALSE]
        ELSE IF FromVisitColumn(attr, <<"D","a","y"," ","R","a","n","g","e"," ","-"," ","E","a","r","l","y">>, j)
        THEN [v |-> SeriesGet(df_visits.rows[j + 1], <<"D","a","y"," ","R","a","n","g","e"," ","-"," ","E","a","r","l","y">>, EmptyStr), brk |-> FALSE]
        ELSE IF FromVisitColumn(attr, <<"D","a","y"," ","R","a","n","g","e"," ","-"," ","L","a","t","e">>, j)
        THEN [v |-> SeriesGet(df_visits.rows[j + 1], <<"D","a","y"," ","R","a","n","g","e"," ","-"," ","L","a","t","e">>, EmptyStr), brk |-> FALSE]
        ELSE no

\* lines 240-287: the loop over the visits of one attribute row; the break
\* leaves it before the cell of the visit is written
RECURSIVE AttrVisitLoop(_, _, _, _, _, _, _, _)
AttrVisitLoop(w, attr, row, j, groups, labels, names, ridx) ==
    IF j >= Len(labels) THEN w
    ELSE LET mv == MappedValue(attr, j, groups, labels, names, ridx)
         IN  IF mv.brk THEN w
             ELSE AttrVisitLoop(SetCell(w, row, col_start_visits + j, Normalise(mv.v)),
                                attr, row, j + 1, groups, labels, names, ridx)

\* lines 232-290: one attribute row
AttrRow(w, attr, row, groups, labels, names, ridx) ==
    LET titled == SetCell(MergeCells(w, <<row, 1, row, Len(left_columns)>>), row, 1, PyStr(attr))
    IN  SetCell(AttrVisitLoop(titled, attr, row, 0, groups, labels, names, ridx),
                row, col_rtsm, EmptyStr)

\* lines 224-230: the title row of a section
TitleRow(w, title, row) ==
    SetCell(MergeCells(w, <<row, 1, row, Len(left_columns)>>), row, 1, PyStr(title))

\* lines 223-290: the rows the two nested loops produce, in order
block_rows ==
    Concat([k \in 1..Len(sections) |->
               <<[title |-> TRUE, text |-> sections[k].title]>>
               \o [a \in 1..Len(sections[k].attrs) |->
                      [title |-> FALSE, text |-> sections[k].attrs[a]]]])

\* one pass of the loops: the row written at cur_row = row
BlockRow(w, row, groups, labels, names, ridx) ==
    LET this == block_rows[row - 3]
    IN  IF this.title THEN TitleRow(w, this.text, row)
        ELSE AttrRow(w, this.text, row, groups, labels, names, ridx)

(***************************************************************************)
(* The forms table (lines 292-335) and the freeze pane (line 347).         *)
(***************************************************************************)
\* lines 298-303: the RTSM row
RtsmRowWrites(row, n) ==
    <<<<row, 1, PyStr(<<"R","T","S","M">>)>>,
      <<row, 2, PyStr(<<"R","T","S","M">>)>>,
      <<row, 3, PyStr(<<"L","i","b","r","a","r","y">>)>>,
      <<row, col_rtsm, PyStr(<<"X">>)>>>>
    \o [k \in 1..Len(extra_headers) |-> <<row, col_start_visits + n + k - 1, EmptyStr>>]

\* lines 308-311: the identity cells, written as read, and the RTSM cell
IdentityWrites(r, row) ==
    <<<<row, 1, SeriesGet(r, <<"F","o","r","m"," ","L","a","b","e","l">>, EmptyStr)>>,
      <<row, 2, SeriesGet(r, <<"F","o","r","m"," ","N","a","m","e">>, EmptyStr)>>,
      <<row, 3, SeriesGet(r, <<"S","o","u","r","c","e">>, EmptyStr)>>,
      <<row, col_rtsm, EmptyStr>>>>

\* the lookup of lines 315-321 with the two keys tried in the other order
VisitCellLookup_event_name_first(r, vlabel, en) ==
    IF en \in DOMAIN r THEN r[en]
    ELSE IF vlabel \in DOMAIN r THEN r[vlabel]
    ELSE EmptyStr

\* lines 315-321: the record's value for a visit
VisitCellLookup(r, vlabel, en) ==
    IF vlabel \in DOMAIN r THEN r[vlabel]
    ELSE IF en \in DOMAIN r THEN r[en]
    ELSE EmptyStr

\* lines 313-326
VisitCellWrites(r, row, labels, names) ==
    [j \in 1..Len(labels) |->
        <<row, col_start_visits + j - 1, Normalise(VisitCellLookup(r, labels[j], names[j]))>>]

\* lines 328-331
extra_vals(r) ==
    (<<"I","s"," ","F","o","r","m"," ","D","y","n","a","m","i","c","?">> :>
        Or(Or(SeriesGet(r, <<"I","s"," ","F","o","r","m"," ","D","y","n","a","m","i","c","?">>, EmptyStr),
              SeriesGet(r, <<"I","s"," ","F","o","r","m"," ","D","y","n","a","m","i","c">>, EmptyStr)),
           SeriesGet(r, <<"I","s","D","y","n","a","m","i","c">>, EmptyStr)))
    @@ (<<"F","o","r","m"," ","D","y","n","a","m","i","c"," ","C","r","i","t","e","r","i","a">> :>
        Or(SeriesGet(r, <<"F","o","r","m"," ","D","y","n","a","m","i","c"," ","C","r","i","t","e","r","i","a">>, EmptyStr),
           SeriesGet(r, <<"F","o","r","m"," ","D","y","n","a","m","i","c"," ","C","r","i","t","e","r","i","a"," ">>, EmptyStr)))

\* lines 332-334
ExtraValueWrites(r, row, n) ==
    [k \in 1..Len(extra_headers) |->
        <<row, col_start_visits + n + k - 1, Get(extra_vals(r), extra_headers[k], EmptyStr)>>]

\* lines 307-335: one record of the forms table
FormRow(w, r, row, labels, names) ==
    WriteAll(w, IdentityWrites(r, row) \o VisitCellWrites(r, row, labels, names)
                \o ExtraValueWrites(r, row, Len(labels)))

(***************************************************************************)
(* Inputs of build_schedule_layout: the visit schedule and the forms table *)
(* as read by pandas, column names stripped (lines 58-66).                 *)
(***************************************************************************)
Half(k) == PyFloat(2 * k + 1)

Whole(k) == PyFloat(2 * k)

VisitKinds ==
    { [g |-> <<"S","c","r","e","e","n","i","n","g">>, l |-> <<"S","c","r","e","e","n","i","n","g">>,
       ot |-> NaN, od |-> NaN, early |-> NaN, late |-> NaN],
      [g |-> <<"R","a","n","d","o","m","i","s","a","t","i","o","n">>, l |-> <<"V","1">>,
       ot |-> PyStr(<<"S","p","e","c","i","f","i","c"," ","E","v","e","n","t">>), od |-> Whole(14), early |-> Whole(2), late |-> Half(2)],
      [g |-> <<"R","A","N","D","O","M","I","S","E","D"," ","T","r","e","a","t","m","e","n","t">>, l |-> <<"V","2">>,
       ot |-> PyStr(<<"P","r","e","v","i","o","u","s"," ","E","v","e","n","t">>), od |-> Whole(7), early |-> NaN, late |-> Whole(1)],
      [g |-> <<"T","r","e","a","t","m","e","n","t">>, l |-> <<"P","3">>,
       ot |-> PyStr(<<"N","o","n","e">>), od |-> Half(3), early |-> Whole(0), late |-> NaN],
      [g |-> <<"R","T","S","M"," ","S","e","t","u","p">>, l |-> <<"R","T","S","M">>,
       ot |-> NaN, od |-> NaN, early |-> NaN, late |-> NaN],
      [g |-> <<"E","n","d"," ","o","f"," ","T","r","e","a","t","m","e","n","t">>, l |-> <<"V","4">>,
       ot |-> PyStr(<<"N","o","n","e">>), od |-> Whole(28), early |-> Half(0), late |-> Whole(3)] }

BaseVisitColumns == {<<"E","v","e","n","t"," ","G","r","o","u","p">>, <<"V","i","s","i","t"," ","N","a","m","e">>}

WindowVisitColumns ==
    {<<"O","f","f","s","e","t"," ","T","y","p","e">>, <<"O","f","f","s","e","t"," ","D","a","y","s">>, <<"D","a","y"," ","R","a","n","g","e"," ","-"," ","E","a","r","l","y">>, <<"D","a","y"," ","R","a","n","g","e"," ","-"," ","L","a","t","e">>}

\* one row of the visit schedule restricted to the columns the sheet has
VisitRow(kind, columns) ==
    LET full == (<<"E","v","e","n","t"," ","G","r","o","u","p">> :> PyStr(kind.g)) @@ (<<"V","i","s","i","t"," ","N","a","m","e">> :> PyStr(kind.l))
                @@ (<<"O","f","f","s","e","t"," ","T","y","p","e">> :> kind.ot) @@ (<<"O","f","f","s","e","t"," ","D","a","y","s">> :> kind.od)
                @@ (<<"D","a","y"," ","R","a","n","g","e"," ","-"," ","E","a","r","l","y">> :> kind.early) @@ (<<"D","a","y"," ","R","a","n","g","e"," ","-"," ","L","a","t","e">> :> kind.late)
    IN  [c \in columns |-> full[c]]

RECURSIVE SeqsUpTo(_, _)
SeqsUpTo(S, n) ==
    IF n = 0 THEN {<<>>}
    ELSE LET shorter == SeqsUpTo(S, n - 1)
         IN  shorter \cup UNION {{Append(q, x) : x \in S} : q \in {p \in shorter : Len(p) = n - 1}}

VisitSchedules(cols) ==
    {[columns |-> cols, rows |-> [i \in 1..Len(kinds) |-> VisitRow(kinds[i], cols)]] :
        kinds \in SeqsUpTo(VisitKinds, MaxVisits)}

\* forms files of two shapes: one keyed by visit labels and event names with
\* the exact extra-header names, one with the alternative names and no Source
FormsFileA ==
    << (<<"F","o","r","m"," ","L","a","b","e","l">> :> PyStr(<<"V","i","t","a","l"," ","S","i","g","n","s">>)) @@ (<<"F","o","r","m"," ","N","a","m","e">> :> PyStr(<<"V","S">>))
        @@ (<<"S","o","u","r","c","e">> :> PyStr(<<"L","i","b","r","a","r","y">>))
        @@ (<<"V","2">> :> PyStr(<<"X">>)) @@ (<<"R","A","N","D">> :> Whole(3)) @@ (<<"V","1">> :> Whole(1))
        @@ (<<"I","s"," ","F","o","r","m"," ","D","y","n","a","m","i","c","?">> :> PyStr(<<"Y">>))
        @@ (<<"F","o","r","m"," ","D","y","n","a","m","i","c"," ","C","r","i","t","e","r","i","a">> :> PyStr(<<"S","e","x"," ","="," ","F">>)),
       (<<"F","o","r","m"," ","L","a","b","e","l">> :> NaN) @@ (<<"F","o","r","m"," ","N","a","m","e">> :> PyStr(<<"E","C","G">>))
        @@ (<<"S","o","u","r","c","e">> :> PyStr(<<"C","u","s","t","o","m">>))
        @@ (<<"V","2">> :> NaN) @@ (<<"R","A","N","D">> :> Half(0)) @@ (<<"V","1">> :> NaN)
        @@ (<<"I","s"," ","F","o","r","m"," ","D","y","n","a","m","i","c","?">> :> NaN)
        @@ (<<"F","o","r","m"," ","D","y","n","a","m","i","c"," ","C","r","i","t","e","r","i","a">> :> NaN) >>

FormsFileB ==
    << (<<"F","o","r","m"," ","L","a","b","e","l">> :> PyStr(<<"D","e","m","o","g","r","a","p","h","y">>)) @@ (<<"F","o","r","m"," ","N","a","m","e">> :> PyStr(<<"D","M">>))
        @@ (<<"P","3">> :> PyStr(<<"X">>)) @@ (<<"S","C","R","N">> :> PyInt(1))
        @@ (<<"I","s"," ","F","o","r","m"," ","D","y","n","a","m","i","c">> :> NaN)
        @@ (<<"I","s","D","y","n","a","m","i","c">> :> PyStr(<<"N">>)) >>

FormsColumns(records) == UNION {DOMAIN records[k] : k \in 1..Len(records)}

\* a configuration with one identity column
OneLeftColumnConfig ==
    [k \in {"left_columns"} |-> <<<<"F","o","r","m"," ","L","a","b","e","l">>>>]

\* the inputs of a study: its configuration, the columns of its visit
\* schedule and its forms
Studies ==
    { [config |-> DefaultConfig,
       visit_columns |-> BaseVisitColumns \cup WindowVisitColumns,
       forms |-> [columns |-> FormsColumns(FormsFileA), rows |-> FormsFileA]],
      [config |-> CustomConfig,
       visit_columns |-> BaseVisitColumns,
       forms |-> [columns |-> FormsColumns(FormsFileB), rows |-> FormsFileB]],
      [config |-> OneLeftColumnConfig,
       visit_columns |-> BaseVisitColumns \cup WindowVisitColumns,
       forms |-> [columns |-> FormsColumns(FormsFileA), rows |-> FormsFileA]],
      [config |-> DefaultConfig,
       visit_columns |-> BaseVisitColumns \cup WindowVisitColumns,
       forms |-> [columns |-> FormsColumns(FormsFileA), rows |-> <<>>]] }

(***************************************************************************)
(* build_schedule_layout as a sequence of steps.                           *)
(***************************************************************************)
InitLayout ==
    /\ pc = "layout_read"
    /\ fast = FALSE
    /\ \E study \in Studies :
          /\ config = study.config
          /\ df_visits \in VisitSchedules(study.visit_columns)
          /\ df_forms = study.forms
    /\ event_names = <<>>
    /\ rand_idx = 0
    /\ ws = <<>>
    /\ forms_start_row = 0
    /\ cur_row = 0
    /\ row_cursor = 0
    /\ IdleEventName /\ IdleGraft /\ IdleRun /\ IdleCopy

\* lines 68-96
DeriveVisitInfo ==
    /\ pc = "layout_read"
    /\ event_names' = [i \in 1..n_visits |->
                          make_event_name(visit_groups[i], visit_labels[i], i - 1, config)]
    /\ rand_idx' = LocateRandIdx(visit_groups)
    /\ ws' = NewLayoutSheet
    /\ pc' = "layout_fixed_columns"
    /\ UNCHANGED <<config, fast, df_visits, df_forms, forms_start_row, cur_row, row_cursor,
                   eventNameVars, graftVars, runVars, copyVars>>

\* lines 108-144
HeaderFixedColumns ==
    /\ pc = "layout_fixed_columns"
    /\ ws' = WriteAll(WriteAll(ws, LeftColumnWrites), EventAndRtsmWrites)
    /\ pc' = "layout_row2"
    /\ UNCHANGED <<config, fast, df_visits, df_forms, event_names, rand_idx, forms_start_row,
                   cur_row, row_cursor, eventNameVars, graftVars, runVars, copyVars>>

\* lines 146-160; the read of an unbound event_label ends the call
HeaderRow2 ==
    /\ pc = "layout_row2"
    /\ LET row2 == Row2Loop(ws, event_names, 1, <<>>)
       IN  /\ ws' = row2.w
           /\ pc' = IF row2.raised THEN "layout_raised" ELSE "layout_row3"
    /\ UNCHANGED <<config, fast, df_visits, df_forms, event_names, rand_idx, forms_start_row,
                   cur_row, row_cursor, eventNameVars, graftVars, runVars, copyVars>>

\* lines 162-168
HeaderRow3 ==
    /\ pc = "layout_row3"
    /\ ws' = WriteAll(ws, Row3Writes(event_names))
    /\ pc' = "layout_row1"
    /\ UNCHANGED <<config, fast, df_visits, df_forms, event_names, rand_idx, forms_start_row,
                   cur_row, row_cursor, eventNameVars, graftVars, runVars, copyVars>>

\* lines 170-190
HeaderRow1 ==
    /\ pc = "layout_row1"
    /\ ws' = Row1(ws, visit_groups)
    /\ pc' = "layout_extra_headers"
    /\ UNCHANGED <<config, fast, df_visits, df_forms, event_names, rand_idx, forms_start_row,
                   cur_row, row_cursor, eventNameVars, graftVars, runVars, copyVars>>

\* lines 192-206
ExtraHeaders ==
    /\ pc = "layout_extra_headers"
    /\ ws' = WriteAll(ws, ExtraHeaderWrites(n_visits))
    /\ cur_row' = 4
    /\ pc' = "layout_blocks"
    /\ UNCHANGED <<config, fast, df_visits, df_forms, event_names, rand_idx, forms_start_row,
                   row_cursor, eventNameVars, graftVars, runVars, copyVars>>

\* lines 223-290: one row of the blocks
BuildBlockRow ==
    /\ pc = "layout_blocks"
    /\ cur_row - 3 <= Len(block_rows)
    /\ ws' = BlockRow(ws, cur_row, visit_groups, visit_labels, event_names, rand_idx)
    /\ cur_row' = cur_row + 1
    /\ UNCHANGED <<pc, config, fast, df_visits, df_forms, event_names, rand_idx, forms_start_row,
                   row_cursor, eventNameVars, graftVars, runVars, copyVars>>

\* lines 292-304: after the last row of the blocks, the RTSM row
StartFormsTable ==
    /\ pc = "layout_blocks"
    /\ cur_row - 3 > Len(block_rows)
    /\ forms_start_row' = cur_row
    /\ ws' = WriteAll(ws, RtsmRowWrites(cur_row, n_visits))
    /\ row_cursor' = cur_row + 1
    /\ pc' = "layout_forms"
    /\ UNCHANGED <<config, fast, df_visits, df_forms, event_names, rand_idx, cur_row,
                   eventNameVars, graftVars, runVars, copyVars>>

\* lines 307-335: one record of the forms file
BuildFormRow ==
    /\ pc = "layout_forms"
    /\ row_cursor - forms_start_row <= Len(df_forms.rows)
    /\ ws' = FormRow(ws, df_forms.rows[row_cursor - forms_start_row], row_cursor,
                     visit_labels, event_names)
    /\ row_cursor' = row_cursor + 1
    /\ UNCHANGED <<pc, config, fast, df_visits, df_forms, event_names, rand_idx, forms_start_row,
                   cur_row, eventNameVars, graftVars, runVars, copyVars>>

\* lines 337-351
FreezeAndSave ==
    /\ pc = "layout_forms"
    /\ row_cursor - forms_start_row > Len(df_forms.rows)
    /\ ws' = [ws EXCEPT !.freeze_panes = <<forms_start_row, col_rtsm>>]
    /\ pc' = "layout_saved"
    /\ UNCHANGED <<config, fast, df_visits, df_forms, event_names, rand_idx, forms_start_row,
                   cur_row, row_cursor, eventNameVars, graftVars, runVars, copyVars>>

NextLayout ==
    \/ DeriveVisitInfo
    \/ HeaderFixedColumns
    \/ HeaderRow2
    \/ HeaderRow3
    \/ HeaderRow1
    \/ ExtraHeaders
    \/ BuildBlockRow
    \/ StartFormsTable
    \/ BuildFormRow
    \/ FreezeAndSave

SpecLayout == InitLayout /\ [][NextLayout]_vars

(***************************************************************************)
(* Properties of build_schedule_layout.                                    *)
(***************************************************************************)
\* the visits, 1-based, whose event group contains "random" in any case
RandomVisits == {i \in 1..n_visits : Contains(<<"r","a","n","d","o","m">>, Lower(visit_groups[i]))}

Derived == pc \notin {"layout_read"}

\* C10: the randomisation index is the smallest 0-based index of a visit whose
\* event group contains "random" case-insensitively, and 0 when no visit's
\* group contains it.
C10_RandIdxIsFirstRandom ==
    Derived =>
        IF RandomVisits = {} THEN rand_idx = 0
        ELSE /\ rand_idx + 1 \in RandomVisits
             /\ \A i \in RandomVisits : rand_idx + 1 <= i

\* a schedule with two random visits, the first not at index 0 and written in
\* upper case, and the grid built to the end
C10_Witness ==
    /\ pc = "layout_saved"
    /\ n_visits = 3
    /\ RandomVisits = {2, 3}
    /\ visit_groups[2] = <<"R","A","N","D","O","M","I","S","E","D"," ","T","r","e","a","t","m","e","n","t">>
    /\ rand_idx = 1

\* a schedule without a random visit, the grid built to the end
C10_NoRandomVisit ==
    ~(pc = "layout_saved" /\ n_visits = 2 /\ RandomVisits = {} /\ rand_idx = 0)

Row1Done == pc \in {"layout_extra_headers", "layout_blocks", "layout_forms", "layout_saved"}

VisitColumn(j) == col_start_visits + j - 1

\* the maximal runs <<a, b>> of adjacent visits with the same event group
MaximalRuns ==
    {run \in (1..n_visits) \X (1..n_visits) :
        /\ run[1] <= run[2]
        /\ \A k \in run[1]..run[2] : visit_groups[k] = visit_groups[run[1]]
        /\ (run[1] = 1 \/ visit_groups[run[1] - 1] # visit_groups[run[1]])
        /\ (run[2] = n_visits \/ visit_groups[run[2] + 1] # visit_groups[run[2]])}

\* the merge ranges of row 1
Row1Ranges == {rng \in ws.merged_cells : rng[1] = 1 /\ rng[3] = 1}

\* C6: the row-1 merge ranges over the visit columns are exactly the maximal
\* runs of adjacent visits with identical event-group string: every visit
\* column lies in exactly one range, adjacent ranges carry different groups,
\* the last range ends at the last visit column, and each range's anchor
\* holds the group shared by its columns.
C6_MergeRangesAreMaximalRuns ==
    Row1Done =>
        /\ Row1Ranges = {<<1, VisitColumn(run[1]), 1, VisitColumn(run[2])>> : run \in MaximalRuns}
        /\ \A j \in 1..n_visits :
              Cardinality({rng \in Row1Ranges : rng[2] <= VisitColumn(j) /\ VisitColumn(j) <= rng[4]}) = 1
        /\ \A rng \in Row1Ranges :
              /\ \A c \in rng[2]..rng[4] :
                    visit_groups[c - col_start_visits + 1] = visit_groups[rng[2] - col_start_visits + 1]
              /\ Shown(ws, 1, rng[2]) = PyStr(visit_groups[rng[2] - col_start_visits + 1])
              /\ \A other \in Row1Ranges :
                    other[2] = rng[4] + 1 =>
                        visit_groups[other[2] - col_start_visits + 1]
                            # visit_groups[rng[2] - col_start_visits + 1]
        /\ (n_visits > 0 => \E rng \in Row1Ranges : rng[4] = VisitColumn(n_visits))

\* three visits, the first two of one group and the third of another, the
\* grid built to the end
C6_Witness ==
    /\ pc = "layout_saved"
    /\ n_visits = 3
    /\ visit_groups[1] = visit_groups[2]
    /\ visit_groups[2] # visit_groups[3]
    /\ Row1Ranges = {<<1, VisitColumn(1), 1, VisitColumn(2)>>, <<1, VisitColumn(3), 1, VisitColumn(3)>>}

\* the records of the forms table already written
WrittenRecords ==
    IF pc \in {"layout_forms", "layout_saved"} THEN 1..(row_cursor - forms_start_row - 1) ELSE {}

FormRowOf(i) == forms_start_row + i

\* the value the claim names for record r and visit j
ClaimedVisitValue(r, j) ==
    IF visit_labels[j] \in DOMAIN r THEN r[visit_labels[j]]
    ELSE IF event_names[j] \in DOMAIN r THEN r[event_names[j]]
    ELSE EmptyStr

\* C8: in a form row, the cell of a visit column is the record's value under
\* the visit's raw label when the record has that key, otherwise the value
\* under the visit's event-name code when the record has that key, otherwise
\* the empty string (the value rendered as C4 says: NaN as "", an integral
\* float as an integer).
C8_FormCellLookup ==
    \A i \in WrittenRecords : \A j \in 1..n_visits :
        Shown(ws, FormRowOf(i), VisitColumn(j)) = Normalise(ClaimedVisitValue(df_forms.rows[i], j))

\* a record that has, for one visit, both keys with different values, for
\* another only the event-name key and for a third neither
C8_Witness ==
    /\ pc = "layout_saved"
    /\ \E i \in WrittenRecords :
          LET r == df_forms.rows[i]
          IN  /\ \E j \in 1..n_visits :
                    /\ visit_labels[j] \in DOMAIN r
                    /\ event_names[j] \in DOMAIN r
                    /\ Normalise(r[visit_labels[j]]) # Normalise(r[event_names[j]])
              /\ \E j \in 1..n_visits :
                    /\ visit_labels[j] \notin DOMAIN r
                    /\ event_names[j] \in DOMAIN r
                    /\ Shown(ws, FormRowOf(i), VisitColumn(j)) # EmptyStr
              /\ \E j \in 1..n_visits :
                    /\ visit_labels[j] \notin DOMAIN r
                    /\ event_names[j] \notin DOMAIN r
                    /\ Shown(ws, FormRowOf(i), VisitColumn(j)) = EmptyStr

\* the row of the blocks whose attribute starts with the name of a column
AttrRowOf(col) ==
    3 + CHOOSE k \in 1..Len(block_rows) : ~block_rows[k].title /\ StartsWith(block_rows[k].text, col)

\* a cell holds neither NaN nor an integral-valued float
Rendered(v) == v.t # "nan" /\ ~(v.t = "float" /\ IsCloseToInt(v.n))

IdentityColumns == <<<<"F","o","r","m"," ","L","a","b","e","l">>, <<"F","o","r","m"," ","N","a","m","e">>, <<"S","o","u","r","c","e">>>>

\* the attribute-row cells read from the visit schedule hold the rendered value
AttributeCellsRendered ==
    pc \in {"layout_forms", "layout_saved"} =>
        \A col \in WindowVisitColumns \cap df_visits.columns : \A j \in 1..n_visits :
            Shown(ws, AttrRowOf(col), VisitColumn(j)) = Normalise(df_visits.rows[j][col])

\* the identity cells of the form rows hold the rendered value
IdentityCellsRendered ==
    \A i \in WrittenRecords : \A k \in 1..Len(IdentityColumns) :
        Shown(ws, FormRowOf(i), k)
            = Normalise(SeriesGet(df_forms.rows[i], IdentityColumns[k], EmptyStr))

\* the extra-header cells of the form rows hold the rendered value of the
\* column of that name, and never NaN
ExtraCellsRendered ==
    \A i \in WrittenRecords : \A k \in 1..Len(extra_headers) :
        LET cell == Shown(ws, FormRowOf(i), VisitColumn(n_visits) + k)
            r    == df_forms.rows[i]
        IN  /\ Rendered(cell)
            /\ extra_headers[k] \in DOMAIN r => cell = Normalise(r[extra_headers[k]])

\* C4: every grid cell filled from input data (attribute-row visit cells, and
\* in each form row the identity cells, the visit cells and the extra-header
\* cells) holds the empty string when the input value is missing/NaN and an
\* integer when it is an integral-valued float; none holds NaN.
C4_InputCellsRendered ==
    /\ AttributeCellsRendered
    /\ IdentityCellsRendered
    /\ \A i \in WrittenRecords : \A j \in 1..n_visits :
          Rendered(Shown(ws, FormRowOf(i), VisitColumn(j)))
    /\ ExtraCellsRendered

\* the part of C4 the code keeps: the cells lines 281-284 and 322-325 pass
\* through, the attribute-row visit cells and the visit cells of the form rows
C4_NormalisedCellsRendered ==
    /\ AttributeCellsRendered
    /\ \A i \in WrittenRecords : \A j \in 1..n_visits :
          Rendered(Shown(ws, FormRowOf(i), VisitColumn(j)))


\* the rows of the blocks up to the given one have been written
BlockRowWritten(row) ==
    \/ pc \in {"layout_forms", "layout_saved"}
    \/ pc = "layout_blocks" /\ cur_row > row

\* visit j (1-based) is the randomisation visit: the first visit whose event
\* group contains "random"
IsRandomisationVisit(j) == RandomVisits # {} /\ j = rand_idx + 1

\* the value C14 names for visit j
ClaimedTriggeringForm(j) ==
    IF IsRandomisationVisit(j) THEN PyStr(<<"E","L","I","G","I","B","I","L","I","T","Y","_","C","R","I","T","E","R","I","A">>)
    ELSE IF j - 1 > rand_idx /\ Contains(<<"V">>, visit_labels[j]) THEN PyStr(<<"R","A","N","D","O","M","I","S","A","T","I","O","N">>)
    ELSE EmptyStr

TriggeringFormRow == AttrRowOf(<<"T","r","i","g","g","e","r","i","n","g",":"," ","F","o","r","m">>)

\* C14: in the "Triggering: Form" row every visit column is written, with
\* ELIGIBILITY_CRITERIA for the randomisation visit, RANDOMISATION for a later
\* visit whose label contains "V", and the empty string otherwise.
C14_TriggeringFormEveryColumn ==
    BlockRowWritten(TriggeringFormRow) =>
        \A j \in 1..n_visits :
            Shown(ws, TriggeringFormRow, VisitColumn(j)) = ClaimedTriggeringForm(j)

\* the visits, 1-based, at which the loop of the row stops
StoppingVisits ==
    {j \in 1..n_visits : /\ event_names[j] # <<"R","A","N","D">>
                         /\ j - 1 > rand_idx
                         /\ Contains(<<"V">>, visit_labels[j])}

\* C14, what the code does: the row is written up to the first visit after
\* the randomisation index whose label contains "V" and whose code is not
\* RAND, that visit's cell and every later one are not written, and
\* RANDOMISATION is written nowhere.
C14_RowStopsAtFirstLaterVisit ==
    BlockRowWritten(TriggeringFormRow) =>
        \A j \in 1..n_visits :
            IF \E k \in StoppingVisits : k <= j
            THEN Shown(ws, TriggeringFormRow, VisitColumn(j)) = PyNone
            ELSE Shown(ws, TriggeringFormRow, VisitColumn(j))
                    = IF event_names[j] = <<"R","A","N","D">> THEN PyStr(<<"E","L","I","G","I","B","I","L","I","T","Y","_","C","R","I","T","E","R","I","A">>) ELSE EmptyStr


Row2Done ==
    pc \in {"layout_row3", "layout_row1", "layout_extra_headers", "layout_blocks",
            "layout_forms", "layout_saved"}

\* the long label C15 names for a code, <<>> for a code matching no pattern
ClaimedLongLabel(code) ==
    IF code = <<"S","C","R","N">> THEN <<<<"S","c","r","e","e","n","i","n","g">>>>
    ELSE IF code = <<"R","A","N","D">> THEN <<<<"R","a","n","d","o","m","i","s","a","t","i","o","n">>>>
    ELSE IF StartsWith(code, <<"V">>) THEN <<<<"V","i","s","i","t"," ">> \o Tail(code)>>
    ELSE IF StartsWith(code, <<"P">>) THEN <<<<"P","h","o","n","e"," ","V","i","s","i","t"," ">> \o Tail(code)>>
    ELSE <<>>

\* C15: row 2 is written without raising, and the cell of every visit column
\* holds the long label of that visit's own code: Screening for SCRN,
\* Randomisation for RAND, "Visit n" for a code starting with V, "Phone Visit
\* n" for one starting with P, and nothing for a code matching none of these.
C15_Row2LabelFromOwnCode ==
    /\ pc # "layout_raised"
    /\ Row2Done =>
          \A j \in 1..n_visits :
              LET claimed == ClaimedLongLabel(event_names[j])
              IN  Shown(ws, 2, VisitColumn(j))
                      = IF claimed = <<>> THEN PyNone ELSE PyStr(claimed[1])

\* C15, what the code keeps: once row 2 is written, the cell of a visit whose
\* code matches one of the four patterns holds that code's long label.
C15_MatchingCodesLabelled ==
    Row2Done =>
        \A j \in 1..n_visits :
            LET claimed == ClaimedLongLabel(event_names[j])
            IN  claimed # <<>> => Shown(ws, 2, VisitColumn(j)) = PyStr(claimed[1])

\* a code matching no pattern after a visit that has a label: the earlier
\* visit's label is in the cell
C15_LabelReused ==
    ~(/\ Row2Done
      /\ \E j \in 2..n_visits :
            /\ ClaimedLongLabel(event_names[j]) = <<>>
            /\ Shown(ws, 2, VisitColumn(j)) = Shown(ws, 2, VisitColumn(j - 1))
            /\ Shown(ws, 2, VisitColumn(j)) # PyNone)


TriggeringEventRow == AttrRowOf(<<"T","r","i","g","g","e","r","i","n","g",":"," ","E","v","e","n","t">>)

\* the value C16 names for visit j
ClaimedTriggeringEvent(j) ==
    IF IsRandomisationVisit(j) THEN PyStr(<<"S","C","R","N">>)
    ELSE IF StartsWith(event_names[j], <<"V">>) /\ j - 1 > 0 THEN PyStr(event_names[j - 1])
    ELSE IF Lower(event_names[j]) = <<"f","o","l","l","o","w","-","u","p">> THEN PyStr(<<"E","O","T">>)
    ELSE EmptyStr

\* C16: in the "Triggering: Event" row the cell of visit j holds SCRN iff the
\* visit is the randomisation visit (the first whose group contains "random",
\* whatever the configured codes), otherwise the previous visit's code when
\* this visit's code starts with V and j > 0, otherwise EOT when the code is
\* "follow-up" in any case, otherwise the empty string.
C16_TriggeringEvent ==
    BlockRowWritten(TriggeringEventRow) =>
        \A j \in 1..n_visits :
            Shown(ws, TriggeringEventRow, VisitColumn(j)) = ClaimedTriggeringEvent(j)

\* C16, what the code keeps: the cell of a visit whose group does not contain
\* "random" is as claimed, and with the default codes the randomisation
\* visit's cell holds SCRN.
C16_OtherVisitsAndDefaultCodes ==
    BlockRowWritten(TriggeringEventRow) =>
        \A j \in 1..n_visits :
            /\ j \notin RandomVisits =>
                  Shown(ws, TriggeringEventRow, VisitColumn(j)) = ClaimedTriggeringEvent(j)
            /\ (IsRandomisationVisit(j) /\ "event_name_mapping" \notin DOMAIN config) =>
                  Shown(ws, TriggeringEventRow, VisitColumn(j)) = PyStr(<<"S","C","R","N">>)


\* the column bands of C17 for L identity columns, N visits, E extra headers
IdentityBand == 1..Len(left_columns)

EventBand == {Len(left_columns) + 1}

RtsmBand == {Len(left_columns) + 2}

VisitBand == (Len(left_columns) + 3)..(Len(left_columns) + 2 + n_visits)

ExtraBand ==
    (Len(left_columns) + 3 + n_visits)..(Len(left_columns) + 2 + n_visits + Len(extra_headers))

TableWritten == pc \in {"layout_forms", "layout_saved"}

\* no two writes of a row go to the same column
NoColumnWrittenTwice(writes) ==
    \A a \in DOMAIN writes : \A b \in DOMAIN writes : a # b => writes[a][2] # writes[b][2]

\* the writes of a row that carry identity values (lines 298-300, 308-310)
IdentityValueWrites(writes) == SubSeq(writes, 1, 3)

\* the writes of a row keep to the bands: those of the identity values go to
\* identity columns and no column is written twice
WritesKeepBands(writes) ==
    /\ \A k \in DOMAIN IdentityValueWrites(writes) : IdentityValueWrites(writes)[k][2] \in IdentityBand
    /\ NoColumnWrittenTwice(writes)

\* the cells of a table row keep to the bands: nothing in the event column
\* and the given value in the RTSM column
CellsKeepBands(row, rtsm_value) ==
    /\ \A c \in EventBand : Shown(ws, row, c) = PyNone
    /\ \A c \in RtsmBand : Shown(ws, row, c) = rtsm_value

TableRowsKeepBands ==
    /\ TableWritten =>
          /\ WritesKeepBands(RtsmRowWrites(forms_start_row, n_visits))
          /\ CellsKeepBands(forms_start_row, PyStr(<<"X">>))
    /\ \A i \in WrittenRecords :
          /\ WritesKeepBands(IdentityWrites(df_forms.rows[i], FormRowOf(i))
                             \o VisitCellWrites(df_forms.rows[i], FormRowOf(i), visit_labels, event_names)
                             \o ExtraValueWrites(df_forms.rows[i], FormRowOf(i), n_visits))
          /\ CellsKeepBands(FormRowOf(i), EmptyStr)

\* the code's columns are those of the bands
ColumnsAreBands ==
    Derived =>
        /\ {col_after_source} = EventBand
        /\ {col_rtsm} = RtsmBand
        /\ {VisitColumn(j) : j \in 1..n_visits} = VisitBand
        /\ {VisitColumn(n_visits) + k : k \in 1..Len(extra_headers)} = ExtraBand
        /\ \A x \in {IdentityBand, EventBand, RtsmBand, VisitBand} :
              \A y \in {EventBand, RtsmBand, VisitBand, ExtraBand} :
                  x # y => x \cap y = {}

\* C17: whatever the number L of configured left columns, the bands identity
\* 1..L, event L+1, RTSM L+2, visits L+3..L+2+N and extras after them are
\* pairwise disjoint, and in the RTSM row and in every form row the identity
\* values are written only into identity columns and no cell is written by
\* two bands.
C17_BandsDisjointForEveryL ==
    /\ ColumnsAreBands
    /\ TableRowsKeepBands

\* C17 for the default three left columns
C17_BandsDisjointForThree ==
    Len(left_columns) = 3 => (ColumnsAreBands /\ TableRowsKeepBands)


\* the text in column 1 of the rows 4.. of the blocks, as C18 lists them
ClaimedBlockRows ==
    <<<<"V","i","s","i","t"," ","D","y","n","a","m","i","c"," ","P","r","o","p","e","r","t","i","e","s">>>> \o dynamic_rows
    \o <<<<"E","v","e","n","t"," ","W","i","n","d","o","w"," ","C","o","n","f","i","g","u","r","a","t","i","o","n">>>> \o event_window_rows

\* the last row of the sheet that holds a value
LastRow == SetMax({0} \cup {p[1] : p \in {q \in DOMAIN ws.cells : ws.cells[q] # PyNone}})

\* C18: rows 1-3 are the header, rows 4-8 the "Visit Dynamic Properties"
\* title and its 4 attributes, rows 9-14 the "Event Window Configuration"
\* title and its 5 attributes, row 15 the RTSM row (X in the RTSM column, the
\* visit columns blank), then one row per form record in input order and
\* nothing after; the forms start row is 15 and the freeze pane is at (15,
\* RTSM column) whatever the visits and the attribute values.
C18_RowPartition ==
    /\ TableWritten =>
          /\ Len(dynamic_rows) = 4 /\ Len(event_window_rows) = 5
          /\ \A k \in 1..Len(ClaimedBlockRows) : Shown(ws, 3 + k, 1) = PyStr(ClaimedBlockRows[k])
          /\ forms_start_row = 15
          /\ Shown(ws, forms_start_row, col_rtsm) = PyStr(<<"X">>)
          /\ \A j \in 1..n_visits : Shown(ws, forms_start_row, VisitColumn(j)) \in {PyNone, EmptyStr}
          /\ \A r \in 1..3 : Shown(ws, r, col_rtsm) = PyStr(<<"R","T","S","M">>)
    /\ \A i \in WrittenRecords :
          Shown(ws, forms_start_row + i, 2) = SeriesGet(df_forms.rows[i], <<"F","o","r","m"," ","N","a","m","e">>, EmptyStr)
    /\ pc = "layout_saved" =>
          /\ WrittenRecords = 1..Len(df_forms.rows)
          /\ LastRow = forms_start_row + Len(df_forms.rows)
          /\ ws.freeze_panes = <<15, col_rtsm>>

\* a grid saved for three visits, the third cut off in the "Triggering: Form"
\* row, and two form records
C18_Witness ==
    /\ pc = "layout_saved"
    /\ n_visits = 3
    /\ Len(df_forms.rows) = 2
    /\ Shown(ws, TriggeringFormRow, VisitColumn(3)) = PyNone
    /\ Shown(ws, 16, 2) # Shown(ws, 17, 2)
    /\ ws.freeze_panes = <<15, col_rtsm>>


VisitDynamicsRow == AttrRowOf(<<"V","i","s","i","t"," ","D","y","n","a","m","i","c","s">>)

\* the visits, 1-based, of an end-of-treatment or end-of-study group
EndVisits ==
    {j \in 1..n_visits : \/ Contains(<<"e","n","d"," ","o","f"," ","t","r","e","a","t","m","e","n","t">>, Lower(visit_groups[j]))
                         \/ Contains(<<"e","n","d"," ","o","f"," ","s","t","u","d","y">>, Lower(visit_groups[j]))}

\* C19: in the "Visit Dynamics" row the cell of visit j (0-based) holds Y iff
\* j >= the randomisation index and the visit's group contains neither "end
\* of treatment" nor "end of study" in any case, else the empty string; with
\* no random visit the index is 0 and every visit outside those groups has Y.
C19_VisitDynamics ==
    BlockRowWritten(VisitDynamicsRow) =>
        /\ \A j \in 1..n_visits :
              Shown(ws, VisitDynamicsRow, VisitColumn(j))
                  = IF j - 1 >= rand_idx /\ j \notin EndVisits THEN PyStr(<<"Y">>) ELSE EmptyStr
        /\ RandomVisits = {} =>
              \A j \in (1..n_visits) \ EndVisits :
                  Shown(ws, VisitDynamicsRow, VisitColumn(j)) = PyStr(<<"Y">>)

\* a screening visit before the randomisation visit and an end-of-treatment
\* visit after it: blank, Y, blank
C19_Witness ==
    /\ pc = "layout_saved"
    /\ n_visits = 3
    /\ rand_idx = 1
    /\ EndVisits = {3}
    /\ Shown(ws, VisitDynamicsRow, VisitColumn(1)) = EmptyStr
    /\ Shown(ws, VisitDynamicsRow, VisitColumn(2)) = PyStr(<<"Y">>)
    /\ Shown(ws, VisitDynamicsRow, VisitColumn(3)) = EmptyStr

\* a schedule without a random visit: an end-of-treatment visit is blank and
\* the visit before it has Y
C19_NoRandomVisit ==
    ~(/\ pc = "layout_saved"
      /\ RandomVisits = {}
      /\ EndVisits = {2}
      /\ Shown(ws, VisitDynamicsRow, VisitColumn(1)) = PyStr(<<"Y">>)
      /\ Shown(ws, VisitDynamicsRow, VisitColumn(2)) = EmptyStr)

=============================================================================
